---- MODULE Spec2Model ----
(***************************************************************************)
(* Model of the agent backend: the tool catalog and state machine          *)
(* (services/tool_masking_service.py) and the single-task worker loop      *)
(* (EnhancedAgentService.execute_task in                                   *)
(* services/enhanced_agent_service.py).                                    *)
(***************************************************************************)
EXTENDS Integers, Sequences, FiniteSets, TLC

(***************************************************************************)
(* Bounds of the model.                                                    *)
(***************************************************************************)
MaxIterations == 2    \* largest value of settings.AGENT_MAX_ITERATIONS
MaxBlocks == 2        \* blocks in the replies of one run, all replies together
MaxTransitions == 3   \* set_state calls on the state machine on its own
MaxTasks == 3         \* task definitions (or consulted agents) of one call
MaxQueryTransitions == 2  \* set_state calls between the catalog queries
MaxMessageBlocks == 2     \* ACTION blocks in a text parsed on its own
MaxRunIterations == 1     \* settings.AGENT_MAX_ITERATIONS when two runs interleave
MaxRunBlocks == 1         \* blocks in a reply when two runs interleave
MaxRegistryTasks == 2     \* task definitions of a call during registry changes
MaxRegistryChanges == 2   \* register_agent and unregister_agent calls during a call

VARIABLES
    current_state,          \* ToolMaskingService.current_state
    state_history,          \* ToolMaskingService.state_history
    validated,              \* last validate_action call and its result
    sandbox,                \* DaytonaService.sandbox is set
    conversation_history,   \* EnhancedAgentService.conversation_history
    error_memory,           \* EnhancedAgentService.error_memory
    session_learnings,      \* EnhancedAgentService.session_learnings
    max_iterations,         \* settings.AGENT_MAX_ITERATIONS
    pc,                     \* position of execute_task
    iteration,              \* local: iteration
    pending,                \* local: actions of the reply still to handle
    events,                 \* the events the generator has yielded
    effector_calls,         \* the calls made to _execute_action
    hist_start,             \* Len(state_history) when the run started
    abandoned               \* the consumer closed the event stream

VARIABLES
    agents,                 \* AgentOrchestrator.agents
    tasks,                  \* AgentOrchestrator.tasks
    task_counter,           \* AgentOrchestrator.task_counter
    call,                   \* the orchestration call and its arguments
    opc,                    \* position of the orchestration call
    slots,                  \* the delegate_task coroutines of the call
    results,                \* local: results of execute_sequential
    parent_task_id,         \* local: parent_task_id of execute_hierarchical
    ret,                    \* the value the call returned
    executor_calls,         \* the executor invocations made
    overtaken               \* an executor finished before one listed earlier

orchVars == <<agents, tasks, task_counter, call, opc, slots, results,
              parent_task_id, ret, executor_calls, overtaken>>

VARIABLES
    definitions,            \* the last two get_tool_definitions calls: argument, text
    logit_bias,             \* the last get_logit_bias call: state, bias
    message,                \* the text handed to _parse_actions, block by block
    parsed,                 \* what _parse_actions returned for it
    runs,                   \* the execute_task generators running on one service
    registry_changes        \* register_agent and unregister_agent calls made

sideVars == <<definitions, logit_bias, message, parsed, runs, registry_changes>>

vars == <<current_state, state_history, validated, sandbox,
          conversation_history, error_memory, session_learnings,
          max_iterations, pc, iteration, pending, events, effector_calls,
          hist_start, abandoned, orchVars, sideVars>>

maskVars == <<current_state, state_history, validated>>
loopVars == <<sandbox, conversation_history, error_memory, session_learnings,
              max_iterations, pc, iteration, pending, events, effector_calls,
              hist_start, abandoned>>

(***************************************************************************)
(* The data of the orchestrator (services/agent_orchestrator.py).  Three   *)
(* of the nine agent types are kept: one registered and active, one        *)
(* registered and not active, one not registered.                          *)
(***************************************************************************)
AgentType == {"knowledge", "planner", "browser"}

TaskStatus == {"pending", "in_progress", "completed", "failed", "cancelled"}

\* The registry at the start: each RegisteredAgent with its active flag and
\* its executor (the callables are numbered).
InitialAgents ==
    ("knowledge" :> [active |-> TRUE, executor |-> 1])
        @@ ("planner" :> [active |-> FALSE, executor |-> 1])

\* What an executor can return: a dict, whose items are kept in insertion
\* order, or a value that is not a dict.
Item(k, v) == [k |-> k, v |-> v]
DictValue(items) == [kind |-> "dict", items |-> items, text |-> "None"]
StrValue(text) == [kind |-> "str", items |-> <<>>, text |-> text]
NoneValue == [kind |-> "none", items |-> <<>>, text |-> "None"]

ExecutorResults ==
    {DictValue(<<Item("a", 1)>>),
     DictValue(<<Item("b", 2)>>),
     DictValue(<<Item("a", 2), Item("b", 2)>>),
     DictValue(<<Item("b", 2), Item("a", 2)>>),
     StrValue("text")}

\* str(result): a str is itself, a dict is rendered item by item in its
\* insertion order, None is rendered as the text None.
Str(v) ==
    IF v.kind = "str" THEN v
    ELSE IF v.kind = "dict" THEN [kind |-> "str", items |-> v.items, text |-> "dict"]
    ELSE StrValue("None")

\* A task id made of the time alone, without the counter.
TaskIdOfTime(n, suffix) == [n |-> 0, suffix |-> suffix]

TaskId(n, suffix) == [n |-> n, suffix |-> suffix]
NoId == TaskId(0, "None")

NoError == [text |-> "None", agent |-> "None"]

\* The positional ratio p / q, kept exact.
Ratio(p, q) == [num |-> p, den |-> q]

NoCall ==
    [mode |-> "None", tasks |-> <<>>, aggregation_strategy |-> "None",
     min_agreement |-> Ratio(0, 1)]

NoReturn == [kind |-> "None"]

\* AgentOrchestrator.__init__ followed by the registrations; no call made.
OrchIdle ==
    /\ agents = InitialAgents
    /\ tasks = [id \in {} |-> id]
    /\ task_counter = 0
    /\ call = NoCall
    /\ opc = "idle"
    /\ slots = <<>>
    /\ results = <<>>
    /\ parent_task_id = NoId
    /\ ret = NoReturn
    /\ executor_calls = <<>>
    /\ overtaken = FALSE

\* No query has been made.
QueryIdle ==
    /\ definitions = <<>>
    /\ logit_bias = [state |-> "None", bias |-> {}]

NotParsed == <<[type |-> "None", header |-> 0]>>

\* No text has been parsed on its own.
ParseIdle ==
    /\ message = <<>>
    /\ parsed = NotParsed

\* The registry has not been changed.
RegistryIdle == registry_changes = 0

\* No generator of execute_task beside the one of pc.
RunsIdle == runs = <<>>

SideIdle ==
    /\ QueryIdle
    /\ ParseIdle
    /\ RunsIdle
    /\ RegistryIdle

(***************************************************************************)
(* AgentState and the static catalog ALL_TOOLS.                            *)
(***************************************************************************)
AgentState == {"planning", "executing", "verifying", "browsing", "learning", "idle"}

ToolOrder ==
    <<"CREATE_FILE", "READ_FILE", "EXECUTE", "LIST_FILES", "UPDATE_TODO",
      "VERIFY", "BROWSER", "SEARCH_WEB", "THINK", "DELEGATE", "TASK_COMPLETED">>

ToolNames == {ToolOrder[i] : i \in DOMAIN ToolOrder}

ALL_TOOLS ==
    [k \in ToolNames |->
        CASE k = "CREATE_FILE"    -> {"executing"}
          [] k = "READ_FILE"      -> {"planning", "executing", "verifying", "learning"}
          [] k = "EXECUTE"        -> {"executing", "verifying"}
          [] k = "LIST_FILES"     -> {"planning", "executing", "verifying", "learning"}
          [] k = "UPDATE_TODO"    -> {"planning", "executing"}
          [] k = "VERIFY"         -> {"verifying"}
          [] k = "BROWSER"        -> {"browsing", "executing"}
          [] k = "SEARCH_WEB"     -> {"planning", "executing", "learning"}
          [] k = "THINK"          -> {"planning", "executing", "verifying", "learning"}
          [] k = "DELEGATE"       -> {"executing"}
          [] k = "TASK_COMPLETED" -> {"executing", "learning"}]

\* A name that is not in the catalog.
UnknownAction == "UNKNOWN_ACTION"

ActionNames == ToolNames \cup {UnknownAction}

\* get_available_tools with the filter dropped: every tool, whatever the state.
GetAvailableToolsAll(state) == ToolNames

\* get_available_tools, for the current state given as argument.
GetAvailableTools(state) == {k \in ToolNames : state \in ALL_TOOLS[k]}

\* validate_action that accepts every catalog tool.
ValidateActionLax(action, state) ==
    IF action \notin ToolNames
    THEN [ok |-> FALSE, reason |-> "Unknown action"]
    ELSE [ok |-> TRUE, reason |-> "None"]

\* validate_action: (is_valid, error_message).
ValidateAction(action, state) ==
    IF action \notin ToolNames
    THEN [ok |-> FALSE, reason |-> "Unknown action"]
    ELSE IF action \notin GetAvailableTools(state)
         THEN [ok |-> FALSE, reason |-> "not available in state"]
         ELSE [ok |-> TRUE, reason |-> "None"]

\* The tools that the guidance text of get_state_prompt names as available.
StatePromptTools(state) ==
    CASE state = "planning"  -> {"READ_FILE", "LIST_FILES", "UPDATE_TODO", "SEARCH_WEB", "THINK"}
      [] state = "executing" -> ToolNames
      [] state = "verifying" -> {"READ_FILE", "LIST_FILES", "EXECUTE", "VERIFY"}
      [] state = "browsing"  -> {"BROWSER", "SEARCH_WEB"}
      [] state = "learning"  -> {"READ_FILE", "LIST_FILES", "SEARCH_WEB", "THINK"}
      [] state = "idle"      -> {}

\* set_state that records the transition but keeps the old current state.
set_state_keep(state) ==
    /\ current_state' = current_state
    /\ state_history' = Append(state_history, state)

\* set_state.
set_state(state) ==
    /\ current_state' = state
    /\ state_history' = Append(state_history, state)

NoValidation == [action |-> "None", state |-> "idle", ok |-> FALSE, reason |-> "None"]


(***************************************************************************)
(* The state machine on its own: any sequence of set_state and             *)
(* validate_action calls on a ToolMaskingService.                          *)
(***************************************************************************)
MaskSetState(state) ==
    /\ Len(state_history) < MaxTransitions
    /\ set_state(state)
    /\ UNCHANGED validated

MaskValidate(action) ==
    /\ validated' = [action |-> action, state |-> current_state,
                     ok |-> ValidateAction(action, current_state).ok,
                     reason |-> ValidateAction(action, current_state).reason]
    /\ UNCHANGED <<current_state, state_history>>

(***************************************************************************)
(* Turns, events, replies.                                                 *)
(***************************************************************************)
\* The blocks a reply may contain: a header name and whether the fields the
\* parser requires for that name are all present.
Blocks ==
    { [name |-> "EXECUTE", complete |-> TRUE],
      [name |-> "EXECUTE", complete |-> FALSE],
      [name |-> "VERIFY",  complete |-> TRUE],
      [name |-> "NOPE",    complete |-> TRUE] }

BlockSeqs == UNION {[1..n -> Blocks] : n \in 0..MaxBlocks}

\* A reply of the completion provider: whether the text contains
\* TASK_COMPLETED, whether it has a "what i learned:" reflection, its blocks.
Replies ==
    { r \in [marker : BOOLEAN, learned : BOOLEAN, blocks : BlockSeqs] :
        r.learned => r.marker }

NoReply == [marker |-> FALSE, learned |-> FALSE, blocks |-> <<>>]

Turn(role, tag, info, reply) ==
    [role |-> role, tag |-> tag, info |-> info, reply |-> reply]

Event(type, it, info) == [type |-> type, iteration |-> it, info |-> info]

\* The action types _parse_actions can produce.
ParserKinds ==
    {"CREATE_FILE", "READ_FILE", "EXECUTE", "LIST_FILES", "UPDATE_TODO",
     "VERIFY", "BROWSER", "SEARCH_WEB", "DELEGATE"}

RECURSIVE ParseBlocks(_)
ParseBlocks(bs) ==
    IF bs = <<>> THEN <<>>
    ELSE IF Head(bs).name \in ParserKinds /\ Head(bs).complete
         THEN <<Head(bs).name>> \o ParseBlocks(Tail(bs))
         ELSE ParseBlocks(Tail(bs))

\* _parse_actions: the actions of a reply, in order of appearance.
ParseActions(reply) == ParseBlocks(reply.blocks)

\* conversation_history.append written as an insertion at the front.
PrependTurn(h, t) == <<t>> \o h

\* conversation_history.append.
AppendTurn(h, t) == Append(h, t)

\* The loop's exit test, off by one.
TimedOutStrict(it, max) == it > max

\* The test "iteration >= max_iterations" that follows the loop.
TimedOut(it, max) == it >= max

\* The handler of an exception in an iteration, continuing with the loop.
AfterIterationErrorContinue == "loop"

\* The handler of an exception in an iteration ends with break.
AfterIterationError == "learning"

\* A reply without actions ending the loop.
AfterNudgeBreak == "learning"

\* Line 378: after the nudge, continue.
AfterNudge == "loop"

\* An error memory that gets an entry for every executed action.
RecordFailureAlways(em, success, entry) == Append(em, entry)

\* Lines 431-438: if not result.get("success"): self.error_memory.append(...).
RecordFailure(em, success, entry) == IF success THEN em ELSE Append(em, entry)

\* A loop test that lets one iteration too many through.
LoopContinuesInclusive(it, max) == it <= max

\* Line 307: while iteration < max_iterations.
LoopContinues(it, max) == it < max

Max2(a, b) == IF a > b THEN a ELSE b

RECURSIVE AddLearnings(_, _)
AddLearnings(ls, errs) ==
    IF errs = <<>> THEN ls
    ELSE LET l == [src |-> "error", kind |-> Head(errs).action] IN
         AddLearnings(IF \E i \in DOMAIN ls : ls[i] = l THEN ls ELSE Append(ls, l),
                      Tail(errs))

\* _extract_learnings_from_errors: one learning per distinct error among the
\* last five entries of the error memory.
ExtractLearningsFromErrors(ls, em) ==
    AddLearnings(ls, SubSeq(em, Max2(1, Len(em) - 4), Len(em)))


(***************************************************************************)
(* EnhancedAgentService.execute_task, one run.  Each action runs the       *)
(* generator from one suspension point (a yield or an await) to a later    *)
(* one.                                                                    *)
(***************************************************************************)
SystemPromptTurn == Turn("system", "system_prompt", current_state, NoReply)
TaskTurn         == Turn("user", "task", current_state, NoReply)
LearningsTurn    == Turn("system", "previous_learnings", "None", NoReply)
NudgeTurn        == Turn("user", "continue", "None", NoReply)
RejectionTurn(a) == Turn("user", "rejected", a, NoReply)
FeedbackTurn(a, success) ==
    Turn("user", IF success THEN "succeeded" ELSE "failed", a, NoReply)
AssistantTurn(r) == Turn("assistant", "reply", "None", r)

\* What an earlier, completed run leaves behind in the service.
PriorHistory ==
    <<Turn("system", "system_prompt", "executing", NoReply),
      Turn("user", "task", "executing", NoReply),
      AssistantTurn([marker |-> TRUE, learned |-> TRUE, blocks |-> <<>>])>>

PriorLearnings == <<[src |-> "reflection", kind |-> "None"]>>

PriorTransitions == <<"planning", "executing", "learning", "idle">>

LoopInit ==
    /\ \E prior \in BOOLEAN :
        /\ sandbox = prior
        /\ conversation_history = IF prior THEN PriorHistory ELSE <<>>
        /\ session_learnings = IF prior THEN PriorLearnings ELSE <<>>
        /\ state_history = IF prior THEN PriorTransitions ELSE <<>>
        /\ hist_start = IF prior THEN Len(PriorTransitions) ELSE 0
    /\ error_memory = <<>>
    /\ max_iterations \in 0..MaxIterations
    /\ pc = "start"
    /\ iteration = 0
    /\ pending = <<>>
    /\ events = <<>>
    /\ effector_calls = <<>>
    /\ abandoned = FALSE

Init ==
    /\ current_state = "idle"
    /\ validated = NoValidation
    /\ LoopInit
    /\ OrchIdle
    /\ SideIdle

\* Lines 217-235: sandbox check, then PHASE 1.
Start ==
    /\ pc = "start"
    /\ IF ~sandbox
       THEN /\ events' = Append(events, Event("status", 0, "initializing"))
            /\ pc' = "sandbox_init"
            /\ UNCHANGED <<current_state, state_history>>
       ELSE /\ set_state("planning")
            /\ events' = Append(events, Event("phase", 0, "planning"))
            /\ pc' = "planning"
    /\ UNCHANGED <<validated, sandbox, conversation_history, error_memory,
                   session_learnings, max_iterations, iteration, pending,
                   effector_calls, hist_start, abandoned>>
    /\ UNCHANGED <<orchVars, sideVars>>

\* await self.daytona.initialize(): returns, or raises into the outer handler.
SandboxInit(ok) ==
    /\ pc = "sandbox_init"
    /\ IF ok
       THEN /\ sandbox' = TRUE
            /\ events' = Append(events, Event("status", 0, "ready"))
            /\ pc' = "sandbox_ready"
       ELSE /\ sandbox' = sandbox
            /\ events' = Append(events, Event("task_failed", 0, "None"))
            /\ pc' = "finally"
    /\ UNCHANGED <<maskVars, conversation_history, error_memory,
                   session_learnings, max_iterations, iteration, pending,
                   effector_calls, hist_start, abandoned>>
    /\ UNCHANGED <<orchVars, sideVars>>

EnterPlanning ==
    /\ pc = "sandbox_ready"
    /\ set_state("planning")
    /\ events' = Append(events, Event("phase", 0, "planning"))
    /\ pc' = "planning"
    /\ UNCHANGED <<validated, sandbox, conversation_history, error_memory,
                   session_learnings, max_iterations, iteration, pending,
                   effector_calls, hist_start, abandoned>>
    /\ UNCHANGED <<orchVars, sideVars>>

\* await self.planner.create_plan(...): the planner never raises.
CreatePlan(ok) ==
    /\ pc = "planning"
    /\ IF ok
       THEN /\ events' = Append(events, Event("plan_created", 0, "None"))
            /\ pc' = "plan_created"
       ELSE /\ events' = Append(events, Event("warning", 0, "planning_failed"))
            /\ pc' = "enter_exec"
    /\ UNCHANGED <<maskVars, sandbox, conversation_history, error_memory,
                   session_learnings, max_iterations, iteration, pending,
                   effector_calls, hist_start, abandoned>>
    /\ UNCHANGED <<orchVars, sideVars>>

\* await self.daytona.write_file("/workspace/todo.md", ...): result ignored.
SaveTodo ==
    /\ pc = "plan_created"
    /\ events' = Append(events, Event("status", 0, "plan_saved"))
    /\ pc' = "enter_exec"
    /\ UNCHANGED <<maskVars, sandbox, conversation_history, error_memory,
                   session_learnings, max_iterations, iteration, pending,
                   effector_calls, hist_start, abandoned>>
    /\ UNCHANGED <<orchVars, sideVars>>

\* PHASE 2.
EnterExecuting ==
    /\ pc = "enter_exec"
    /\ set_state("executing")
    /\ events' = Append(events, Event("phase", 0, "execution"))
    /\ pc' = "seed"
    /\ UNCHANGED <<validated, sandbox, conversation_history, error_memory,
                   session_learnings, max_iterations, iteration, pending,
                   effector_calls, hist_start, abandoned>>
    /\ UNCHANGED <<orchVars, sideVars>>

\* Lines 272-305: the conversation is seeded.
Seed ==
    /\ pc = "seed"
    /\ conversation_history' =
          IF session_learnings # <<>>
          THEN AppendTurn(<<SystemPromptTurn, TaskTurn>>, LearningsTurn)
          ELSE <<SystemPromptTurn, TaskTurn>>
    /\ iteration' = 0
    /\ pc' = "loop"
    /\ UNCHANGED <<maskVars, sandbox, error_memory, session_learnings,
                   max_iterations, pending, events, effector_calls,
                   hist_start, abandoned>>
    /\ UNCHANGED <<orchVars, sideVars>>

\* while iteration < max_iterations: iteration += 1; yield "iteration".
LoopHead ==
    /\ pc = "loop"
    /\ IF LoopContinues(iteration, max_iterations)
       THEN /\ iteration' = iteration + 1
            /\ events' = Append(events, Event("iteration", iteration + 1, "None"))
            /\ pc' = "completion"
       ELSE /\ pc' = "learning"
            /\ UNCHANGED <<iteration, events>>
    /\ UNCHANGED <<maskVars, sandbox, conversation_history, error_memory,
                   session_learnings, max_iterations, pending, effector_calls,
                   hist_start, abandoned>>
    /\ UNCHANGED <<orchVars, sideVars>>

RECURSIVE BlocksIn(_)
BlocksIn(h) ==
    IF h = <<>> THEN 0
    ELSE (IF Head(h).role = "assistant" THEN Len(Head(h).reply.blocks) ELSE 0)
         + BlocksIn(Tail(h))

\* await acompletion(...) returns a reply.
CompletionReturns(reply) ==
    /\ pc = "completion"
    /\ BlocksIn(conversation_history) + Len(reply.blocks) <= MaxBlocks
    /\ conversation_history' = AppendTurn(conversation_history, AssistantTurn(reply))
    /\ events' = Append(events, Event("agent_message", iteration, "None"))
    /\ pc' = "check"
    /\ UNCHANGED <<maskVars, sandbox, error_memory, session_learnings,
                   max_iterations, iteration, pending, effector_calls,
                   hist_start, abandoned>>
    /\ UNCHANGED <<orchVars, sideVars>>

\* await acompletion(...) raises: except Exception, yield "error", break.
CompletionRaises ==
    /\ pc = "completion"
    /\ events' = Append(events, Event("error", iteration, "completion"))
    /\ pc' = AfterIterationError
    /\ UNCHANGED <<maskVars, sandbox, conversation_history, error_memory,
                   session_learnings, max_iterations, iteration, pending,
                   effector_calls, hist_start, abandoned>>
    /\ UNCHANGED <<orchVars, sideVars>>

LastReply == conversation_history[Len(conversation_history)].reply

ContainsMarkerAlone(reply) == reply.marker /\ reply.blocks = <<>>

\* Line 352: "TASK_COMPLETED" in ai_message.
ContainsMarker(reply) == reply.marker

\* Lines 351-378: completion check, parsing, the nudge.
CheckReply ==
    /\ pc = "check"
    /\ IF ContainsMarker(LastReply)
       THEN /\ session_learnings' =
                  IF LastReply.learned
                  THEN Append(session_learnings, [src |-> "reflection", kind |-> "None"])
                  ELSE session_learnings
            /\ events' = Append(events, Event("task_completed", iteration, "None"))
            /\ pc' = "learning"
            /\ UNCHANGED <<conversation_history, pending>>
       ELSE IF ParseActions(LastReply) = <<>>
            THEN /\ conversation_history' = AppendTurn(conversation_history, NudgeTurn)
                 /\ pc' = AfterNudge
                 /\ UNCHANGED <<session_learnings, events, pending>>
            ELSE /\ pending' = ParseActions(LastReply)
                 /\ pc' = "action"
                 /\ UNCHANGED <<session_learnings, events, conversation_history>>
    /\ UNCHANGED <<maskVars, sandbox, error_memory, max_iterations, iteration,
                   effector_calls, hist_start, abandoned>>
    /\ UNCHANGED <<orchVars, sideVars>>

\* A loop that leaves the rest of the reply's actions and goes on.
AfterActionSkipRest(rest) == "loop"

\* Lines 381 and 314: the next action of the reply, or the next iteration.
AfterAction(rest) == IF rest = <<>> THEN "loop" ELSE "action"

\* Lines 381-406: validation of the next action of the reply.
HandleAction ==
    /\ pc = "action"
    /\ pending # <<>>
    /\ LET a == Head(pending)
           v == ValidateAction(a, current_state) IN
       /\ validated' = [action |-> a, state |-> current_state,
                        ok |-> v.ok, reason |-> v.reason]
       /\ IF ~v.ok
          THEN /\ events' = Append(events, Event("action_rejected", iteration, a))
               /\ conversation_history' =
                      AppendTurn(conversation_history, RejectionTurn(a))
               /\ pending' = Tail(pending)
               /\ pc' = AfterAction(Tail(pending))
          ELSE /\ events' = Append(events, Event("action_executing", iteration, a))
               /\ pc' = "executing"
               /\ UNCHANGED <<conversation_history, pending>>
    /\ UNCHANGED <<current_state, state_history, sandbox, error_memory,
                   session_learnings, max_iterations, iteration,
                   effector_calls, hist_start, abandoned>>
    /\ UNCHANGED <<orchVars, sideVars>>

\* Lines 408-463: await self._execute_action(action) returns a result (it
\* never raises); feedback; on failure the error is recorded, and
\* error_analyzer.record_error may raise into the iteration's handler.
ExecuteAction(success, raises) ==
    /\ pc = "executing"
    /\ pending # <<>>
    /\ raises => ~success
    /\ LET a == Head(pending) IN
       /\ effector_calls' = Append(effector_calls, [kind |-> a, state |-> current_state])
       /\ conversation_history' =
              AppendTurn(conversation_history, FeedbackTurn(a, success))
       /\ error_memory' =
              RecordFailure(error_memory, success,
                            [action |-> a, iteration |-> iteration])
       /\ IF raises
          THEN /\ events' = events \o <<Event("action_result", iteration, a),
                                        Event("error", iteration, "processing")>>
               /\ pending' = <<>>
               /\ pc' = AfterIterationError
          ELSE /\ events' = Append(events, Event("action_result", iteration, a))
               /\ pending' = Tail(pending)
               /\ pc' = AfterAction(Tail(pending))
    /\ UNCHANGED <<maskVars, sandbox, session_learnings, max_iterations,
                   iteration, hist_start, abandoned>>
    /\ UNCHANGED <<orchVars, sideVars>>

\* PHASE 3, lines 465-479.
Learning ==
    /\ pc = "learning"
    /\ set_state("learning")
    /\ IF TimedOut(iteration, max_iterations)
       THEN /\ events' = Append(events, Event("task_timeout", iteration, "None"))
            /\ session_learnings' =
                   ExtractLearningsFromErrors(session_learnings, error_memory)
       ELSE UNCHANGED <<events, session_learnings>>
    /\ pc' = "finally"
    /\ UNCHANGED <<validated, sandbox, conversation_history, error_memory,
                   max_iterations, iteration, pending, effector_calls,
                   hist_start, abandoned>>
    /\ UNCHANGED <<orchVars, sideVars>>

\* finally: lines 489-506.
Finally ==
    /\ pc = "finally"
    /\ set_state("idle")
    /\ events' = Append(events, Event("statistics", 0, "None"))
    /\ pc' = "done"
    /\ UNCHANGED <<validated, sandbox, conversation_history, error_memory,
                   session_learnings, max_iterations, iteration, pending,
                   effector_calls, hist_start, abandoned>>
    /\ UNCHANGED <<orchVars, sideVars>>

\* The points where the generator is suspended and every arrival is a yield
\* or an await.
SuspendPcs ==
    {"sandbox_init", "sandbox_ready", "planning", "plan_created", "enter_exec",
     "seed", "completion", "check", "executing"}

\* The consumer closes the stream (or the task is cancelled) while the
\* generator is suspended: the exception is not an Exception, so only the
\* finally block runs, and its yield delivers nothing.
Abandon ==
    /\ pc \in SuspendPcs
    /\ set_state("idle")
    /\ abandoned' = TRUE
    /\ pc' = "done"
    /\ UNCHANGED <<validated, sandbox, conversation_history, error_memory,
                   session_learnings, max_iterations, iteration, pending,
                   events, effector_calls, hist_start>>
    /\ UNCHANGED <<orchVars, sideVars>>

Next ==
    \/ Start
    \/ \E ok \in BOOLEAN : SandboxInit(ok)
    \/ EnterPlanning
    \/ \E ok \in BOOLEAN : CreatePlan(ok)
    \/ SaveTodo
    \/ EnterExecuting
    \/ Seed
    \/ LoopHead
    \/ \E reply \in Replies : CompletionReturns(reply)
    \/ CompletionRaises
    \/ CheckReply
    \/ HandleAction
    \/ \E success \in BOOLEAN, raises \in BOOLEAN : ExecuteAction(success, raises)
    \/ Learning
    \/ Finally
    \/ Abandon

Spec == Init /\ [][Next]_vars

\* Every step the scheduler can take is eventually taken: each collaborator
\* call returns or raises.
FairSpec == Spec /\ WF_vars(Next)

(***************************************************************************)
(* The state machine driven by arbitrary callers.                          *)
(***************************************************************************)
InitMask ==
    /\ current_state = "idle"
    /\ state_history = <<>>
    /\ validated = NoValidation
    /\ sandbox = FALSE
    /\ conversation_history = <<>>
    /\ session_learnings = <<>>
    /\ hist_start = 0
    /\ error_memory = <<>>
    /\ max_iterations = 0
    /\ pc = "start"
    /\ iteration = 0
    /\ pending = <<>>
    /\ events = <<>>
    /\ effector_calls = <<>>
    /\ abandoned = FALSE
    /\ OrchIdle
    /\ SideIdle

NextMask ==
    \/ \E state \in AgentState : MaskSetState(state) /\ UNCHANGED <<loopVars, orchVars, sideVars>>
    \/ \E action \in ActionNames : MaskValidate(action) /\ UNCHANGED <<loopVars, orchVars, sideVars>>

SpecMask == InitMask /\ [][NextMask]_vars

(***************************************************************************)
(* The catalog queries: get_tool_definitions and get_logit_bias.           *)
(***************************************************************************)
\* tool_info["description"] and tool_info["format"]: one text per tool.
Description(tool_name) == [text |-> "description", of |-> tool_name]
Format(tool_name) == [text |-> "format", of |-> tool_name]

\* state = state or self.current_state.
ResolveState(arg, current) == IF arg = "None" THEN current ELSE arg

\* Lines 168-170: both branches filter the catalog by the resolved state.
DefinitionsAvailable(state, current) ==
    IF state = current THEN GetAvailableTools(current)
    ELSE {name \in ToolNames : state \in ALL_TOOLS[name]}

\* Lines 174-180: one entry per catalog tool, in catalog order.
DefinitionEntries(state, current) ==
    [i \in DOMAIN ToolOrder |->
        [index |-> i,
         tool_name |-> ToolOrder[i],
         availability |->
             IF ToolOrder[i] \in DefinitionsAvailable(state, current)
             THEN "available" ELSE "unavailable",
         description |-> Description(ToolOrder[i]),
         format |-> Format(ToolOrder[i])]]

EntryIsAvailable(e) == e.availability = "available"

\* A rendering that lists only the tools available in the state.
GetToolDefinitionsMasked(state, current) ==
    [header |-> "AVAILABLE ACTIONS:",
     entries |-> SelectSeq(DefinitionEntries(state, current), EntryIsAvailable)]

\* get_tool_definitions, lines 155-182.
GetToolDefinitions(state, current) ==
    [header |-> "AVAILABLE ACTIONS:", entries |-> DefinitionEntries(state, current)]

\* A bias that is put on the available tools.
GetLogitBiasOnAvailable(state) ==
    UNION {{[prefix |-> "ACTION: ", tool |-> t, weight |-> -100],
            [prefix |-> "", tool |-> t, weight |-> -50]} :
           t \in GetAvailableTools(state)}

\* get_logit_bias, lines 200-213: two keys for every tool that is not
\* available, f"ACTION: {tool_name}" with -100 and tool_name with -50.
GetLogitBias(state) ==
    UNION {{[prefix |-> "ACTION: ", tool |-> t, weight |-> -100],
            [prefix |-> "", tool |-> t, weight |-> -50]} :
           t \in ToolNames \ GetAvailableTools(state)}

StateArgs == AgentState \cup {"None"}

\* A caller asks for the rendering; the last two answers are kept.
MaskGetToolDefinitions(arg) ==
    /\ LET state == ResolveState(arg, current_state)
           answer == [state |-> state,
                      text |-> GetToolDefinitions(state, current_state)] IN
       definitions' = IF definitions = <<>> THEN <<answer>>
                      ELSE <<definitions[Len(definitions)], answer>>
    /\ UNCHANGED <<maskVars, loopVars, orchVars, logit_bias, message, parsed, runs, registry_changes>>

\* A caller asks for the decoding bias.
MaskGetLogitBias ==
    /\ logit_bias' = [state |-> current_state, bias |-> GetLogitBias(current_state)]
    /\ UNCHANGED <<maskVars, loopVars, orchVars, definitions, message, parsed, runs, registry_changes>>

\* A transition between two queries.
QuerySetState(state) ==
    /\ Len(state_history) < MaxQueryTransitions
    /\ set_state(state)
    /\ UNCHANGED <<validated, loopVars, orchVars, sideVars>>

NextQuery ==
    \/ \E state \in AgentState : QuerySetState(state)
    \/ \E arg \in StateArgs : MaskGetToolDefinitions(arg)
    \/ MaskGetLogitBias

SpecQuery == InitMask /\ [][NextQuery]_vars

(***************************************************************************)
(* _parse_actions on its own (enhanced_agent_service.py, lines 577-721).   *)
(* A text is the sequence of its ACTION blocks; a block is its action name,*)
(* upper-cased, the field headers found in it and, for AGENT_TYPE, the     *)
(* lower-cased value.                                                      *)
(***************************************************************************)
BlockFields(name) ==
    CASE name = "CREATE_FILE" -> {"PATH", "CONTENT"}
      [] name = "READ_FILE"   -> {"PATH"}
      [] name = "EXECUTE"     -> {"COMMAND"}
      [] name = "LIST_FILES"  -> {"PATH"}
      [] name = "UPDATE_TODO" -> {"CONTENT"}
      [] name = "VERIFY"      -> {"WHAT", "HOW"}
      [] name = "BROWSER"     -> {"TASK", "ACTION_TYPE", "URL"}
      [] name = "SEARCH_WEB"  -> {"QUERY", "MAX_RESULTS"}
      [] name = "DELEGATE"    -> {"AGENT_TYPE", "TASK"}
      [] OTHER                -> {}

\* Names that match \w+ in a header: the nine the parser knows, a catalog
\* tool it has no branch for, and a name outside the catalog.
BlockNames == ParserKinds \cup {"THINK", "NOPE"}

\* agent_type_map, lines 703-711.
AgentTypeMap ==
    {"knowledge", "planner", "browser", "code", "test", "review", "debug"}

TextBlocks ==
    {[name |-> n, fields |-> F, agent |-> a] :
        n \in BlockNames, F \in SUBSET BlockFields("CREATE_FILE")
                                \cup SUBSET BlockFields("EXECUTE")
                                \cup SUBSET BlockFields("VERIFY")
                                \cup SUBSET BlockFields("BROWSER")
                                \cup SUBSET BlockFields("SEARCH_WEB")
                                \cup SUBSET BlockFields("DELEGATE"),
        a \in {"None", "knowledge", "nobody"}}

\* The blocks a text can hold: only the fields its parser branch looks for
\* are told apart, and AGENT_TYPE has a value exactly when it is present.
WellTypedBlocks ==
    {b \in TextBlocks :
        /\ b.fields \subseteq BlockFields(b.name)
        /\ (b.agent # "None") <=> ("AGENT_TYPE" \in b.fields)}

Messages == UNION {[1..n -> WellTypedBlocks] : n \in 0..MaxMessageBlocks}

\* match.group(1).strip() of field f in block i: the text of that field.
Value(i, f) == [block |-> i, field |-> f]

\* A value the parser supplies itself.
Default(text) == [block |-> 0, field |-> text]

ParsedAction(i, type, args) == [type |-> type, header |-> i, args |-> args]

\* A branch for every known name that builds the action from whatever
\* fields are there.
ParseBlockPartial(i, b) ==
    IF b.name \in ParserKinds
    THEN <<ParsedAction(i, b.name, [f \in b.fields |-> Value(i, f)])>>
    ELSE <<>>

\* One iteration of the loop over the matches, lines 586-719.
ParseBlock(i, b) ==
    LET has(f) == f \in b.fields IN
    CASE b.name = "CREATE_FILE" ->
            IF has("PATH") /\ has("CONTENT")
            THEN <<ParsedAction(i, "CREATE_FILE",
                       [path |-> Value(i, "PATH"), content |-> Value(i, "CONTENT")])>>
            ELSE <<>>
      [] b.name = "READ_FILE" ->
            IF has("PATH")
            THEN <<ParsedAction(i, "READ_FILE", [path |-> Value(i, "PATH")])>>
            ELSE <<>>
      [] b.name = "EXECUTE" ->
            IF has("COMMAND")
            THEN <<ParsedAction(i, "EXECUTE", [command |-> Value(i, "COMMAND")])>>
            ELSE <<>>
      [] b.name = "LIST_FILES" ->
            <<ParsedAction(i, "LIST_FILES",
                  [path |-> IF has("PATH") THEN Value(i, "PATH")
                            ELSE Default("/workspace")])>>
      [] b.name = "UPDATE_TODO" ->
            IF has("CONTENT")
            THEN <<ParsedAction(i, "UPDATE_TODO", [content |-> Value(i, "CONTENT")])>>
            ELSE <<>>
      [] b.name = "VERIFY" ->
            IF has("WHAT") /\ has("HOW")
            THEN <<ParsedAction(i, "VERIFY",
                       [what |-> Value(i, "WHAT"), how |-> Value(i, "HOW")])>>
            ELSE <<>>
      [] b.name = "BROWSER" ->
            IF has("TASK")
            THEN <<ParsedAction(i, "BROWSER",
                       [mode |-> Default("task"), task |-> Value(i, "TASK")])>>
            ELSE IF has("ACTION_TYPE")
            THEN <<ParsedAction(i, "BROWSER",
                       IF has("URL")
                       THEN [mode |-> Default("structured"),
                             action_type |-> Value(i, "ACTION_TYPE"),
                             url |-> Value(i, "URL")]
                       ELSE [mode |-> Default("structured"),
                             action_type |-> Value(i, "ACTION_TYPE")])>>
            ELSE <<>>
      [] b.name = "SEARCH_WEB" ->
            IF has("QUERY")
            THEN <<ParsedAction(i, "SEARCH_WEB",
                       [query |-> Value(i, "QUERY"),
                        max_results |-> IF has("MAX_RESULTS")
                                        THEN Value(i, "MAX_RESULTS")
                                        ELSE Default("5")])>>
            ELSE <<>>
      [] b.name = "DELEGATE" ->
            IF has("AGENT_TYPE") /\ has("TASK") /\ b.agent \in AgentTypeMap
            THEN <<ParsedAction(i, "DELEGATE",
                       [agent_type |-> Default(b.agent), task |-> Value(i, "TASK")])>>
            ELSE <<>>
      [] OTHER -> <<>>

RECURSIVE ParseFromStopAtBad(_, _)
ParseFromStopAtBad(text, i) ==
    IF i > Len(text) \/ ParseBlock(i, text[i]) = <<>> THEN <<>>
    ELSE ParseBlock(i, text[i]) \o ParseFromStopAtBad(text, i + 1)

\* The loop over re.finditer's matches, in the order of the headers.
RECURSIVE ParseFrom(_, _)
ParseFrom(text, i) ==
    IF i > Len(text) THEN <<>>
    ELSE ParseBlock(i, text[i]) \o ParseFrom(text, i + 1)

\* _parse_actions(message).
ParseMessage(text) == ParseFrom(text, 1)

\* The worker-loop variables of a service that runs nothing.
WorkerIdle ==
    /\ current_state = "idle"
    /\ state_history = <<>>
    /\ validated = NoValidation
    /\ sandbox = FALSE
    /\ conversation_history = <<>>
    /\ session_learnings = <<>>
    /\ hist_start = 0
    /\ error_memory = <<>>
    /\ max_iterations = 0
    /\ pc = "start"
    /\ iteration = 0
    /\ pending = <<>>
    /\ events = <<>>
    /\ effector_calls = <<>>
    /\ abandoned = FALSE

InitParse ==
    /\ WorkerIdle
    /\ OrchIdle
    /\ QueryIdle
    /\ RunsIdle
    /\ RegistryIdle
    /\ message \in Messages
    /\ parsed = NotParsed

\* A caller parses the text.
ParseActionsCall ==
    /\ parsed = NotParsed
    /\ parsed' = ParseMessage(message)
    /\ UNCHANGED <<maskVars, loopVars, orchVars, definitions, logit_bias, message, runs, registry_changes>>

NextParse == ParseActionsCall

SpecParse == InitParse /\ [][NextParse]_vars

(***************************************************************************)
(* Two runs of EnhancedAgentService.execute_task on the one service        *)
(* instance (enhanced_agent_service = EnhancedAgentService(), line 1097)   *)
(* and the one state machine (tool_masking = ToolMaskingService(),         *)
(* tool_masking_service.py line 308), interleaved by the event loop: a run *)
(* keeps the loop until it reaches a yield or an await.  The service's     *)
(* fields and the state machine are shared; pc, iteration, the reply and   *)
(* the actions still to handle are locals of each generator.  Several      *)
(* steps run over more than one suspension point, which only removes       *)
(* interleavings.                                                          *)
(***************************************************************************)
Runs == {1, 2}

\* A turn of the conversation history and the run that put it there.
Owned(r, t) == [owner |-> r, turn |-> t]

\* The replies the provider gives here.
RunReplies == {reply \in Replies : Len(reply.blocks) <= MaxRunBlocks}

NewRun ==
    [pc |-> "start", iteration |-> 0, ai_message |-> NoReply, pending |-> <<>>,
     checked |-> <<>>, sent |-> <<>>]

\* Where a generator is suspended, not yet started, or finished.
ParkedPcs == SuspendPcs \cup {"start", "request", "done"}

\* The event loop runs r: no other generator is in the middle of a step.
Scheduled(r) == \A s \in Runs \ {r} : runs[s].pc \in ParkedPcs

At(r, where) == Scheduled(r) /\ runs[r].pc = where

\* The variables the two runs leave alone.
oneRunVars == <<validated, pc, iteration, pending, events, effector_calls,
                hist_start, abandoned>>
otherVars == <<oneRunVars, orchVars, definitions, logit_bias, message, parsed,
               registry_changes>>

InitTwo ==
    /\ current_state = "idle"
    /\ state_history = <<>>
    /\ validated = NoValidation
    /\ sandbox \in BOOLEAN
    /\ conversation_history = <<>>
    /\ session_learnings = <<>>
    /\ hist_start = 0
    /\ error_memory = <<>>
    /\ max_iterations \in 0..MaxRunIterations
    /\ pc = "start"
    /\ iteration = 0
    /\ pending = <<>>
    /\ events = <<>>
    /\ effector_calls = <<>>
    /\ abandoned = FALSE
    /\ OrchIdle
    /\ QueryIdle
    /\ ParseIdle
    /\ RegistryIdle
    /\ runs = [r \in Runs |-> NewRun]

\* Lines 217-235.
RunStart(r) ==
    /\ At(r, "start")
    /\ IF ~sandbox
       THEN /\ runs' = [runs EXCEPT ![r].pc = "sandbox_init"]
            /\ UNCHANGED <<current_state, state_history>>
       ELSE /\ set_state("planning")
            /\ runs' = [runs EXCEPT ![r].pc = "planning"]
    /\ UNCHANGED <<sandbox, conversation_history, error_memory,
                   session_learnings, max_iterations, otherVars>>

\* await self.daytona.initialize().
RunSandboxInit(r, ok) ==
    /\ At(r, "sandbox_init")
    /\ sandbox' = (ok \/ sandbox)
    /\ runs' = [runs EXCEPT ![r].pc = IF ok THEN "sandbox_ready" ELSE "finally"]
    /\ UNCHANGED <<current_state, state_history, conversation_history,
                   error_memory, session_learnings, max_iterations, otherVars>>

RunEnterPlanning(r) ==
    /\ At(r, "sandbox_ready")
    /\ set_state("planning")
    /\ runs' = [runs EXCEPT ![r].pc = "planning"]
    /\ UNCHANGED <<sandbox, conversation_history, error_memory,
                   session_learnings, max_iterations, otherVars>>

\* await self.planner.create_plan(...).
RunCreatePlan(r, ok) ==
    /\ At(r, "planning")
    /\ runs' = [runs EXCEPT ![r].pc = IF ok THEN "plan_created" ELSE "enter_exec"]
    /\ UNCHANGED <<current_state, state_history, sandbox, conversation_history,
                   error_memory, session_learnings, max_iterations, otherVars>>

\* await self.daytona.write_file("/workspace/todo.md", ...).
RunSaveTodo(r) ==
    /\ At(r, "plan_created")
    /\ runs' = [runs EXCEPT ![r].pc = "enter_exec"]
    /\ UNCHANGED <<current_state, state_history, sandbox, conversation_history,
                   error_memory, session_learnings, max_iterations, otherVars>>

RunEnterExecuting(r) ==
    /\ At(r, "enter_exec")
    /\ set_state("executing")
    /\ runs' = [runs EXCEPT ![r].pc = "seed"]
    /\ UNCHANGED <<sandbox, conversation_history, error_memory,
                   session_learnings, max_iterations, otherVars>>

\* Lines 272-305: self.conversation_history = [...], the learnings appended.
RunSeed(r) ==
    /\ At(r, "seed")
    /\ conversation_history' =
          IF session_learnings # <<>>
          THEN AppendTurn(<<Owned(r, SystemPromptTurn), Owned(r, TaskTurn)>>,
                          Owned(r, LearningsTurn))
          ELSE <<Owned(r, SystemPromptTurn), Owned(r, TaskTurn)>>
    /\ runs' = [runs EXCEPT ![r].pc = "loop", ![r].iteration = 0]
    /\ UNCHANGED <<current_state, state_history, sandbox, error_memory,
                   session_learnings, max_iterations, otherVars>>

\* while iteration < max_iterations: iteration += 1; yield "iteration".
RunLoopHead(r) ==
    /\ At(r, "loop")
    /\ runs' = IF LoopContinues(runs[r].iteration, max_iterations)
               THEN [runs EXCEPT ![r].pc = "request",
                                 ![r].iteration = runs[r].iteration + 1]
               ELSE [runs EXCEPT ![r].pc = "learning"]
    /\ UNCHANGED <<current_state, state_history, sandbox, conversation_history,
                   error_memory, session_learnings, max_iterations, otherVars>>

\* Lines 320-334: get_logit_bias(), then acompletion is called with
\* messages=self.conversation_history.
RunRequest(r) ==
    /\ At(r, "request")
    /\ runs' = [runs EXCEPT
                  ![r].pc = "completion",
                  ![r].sent = Append(runs[r].sent,
                                     [messages |-> conversation_history,
                                      bias_state |-> current_state])]
    /\ UNCHANGED <<current_state, state_history, sandbox, conversation_history,
                   error_memory, session_learnings, max_iterations, otherVars>>

\* The completion returns: lines 336-349.
RunCompletionReturns(r, reply) ==
    /\ At(r, "completion")
    /\ conversation_history' =
          AppendTurn(conversation_history, Owned(r, AssistantTurn(reply)))
    /\ runs' = [runs EXCEPT ![r].pc = "check", ![r].ai_message = reply]
    /\ UNCHANGED <<current_state, state_history, sandbox, error_memory,
                   session_learnings, max_iterations, otherVars>>

\* The completion raises: except Exception, yield "error", break.
RunCompletionRaises(r) ==
    /\ At(r, "completion")
    /\ runs' = [runs EXCEPT ![r].pc = AfterIterationError]
    /\ UNCHANGED <<current_state, state_history, sandbox, conversation_history,
                   error_memory, session_learnings, max_iterations, otherVars>>

\* Lines 351-378.
RunCheckReply(r) ==
    /\ At(r, "check")
    /\ LET reply == runs[r].ai_message IN
       IF ContainsMarker(reply)
       THEN /\ session_learnings' =
                  IF reply.learned
                  THEN Append(session_learnings, [src |-> "reflection", kind |-> "None"])
                  ELSE session_learnings
            /\ runs' = [runs EXCEPT ![r].pc = "learning"]
            /\ UNCHANGED conversation_history
       ELSE IF ParseActions(reply) = <<>>
            THEN /\ conversation_history' =
                        AppendTurn(conversation_history, Owned(r, NudgeTurn))
                 /\ runs' = [runs EXCEPT ![r].pc = AfterNudge]
                 /\ UNCHANGED session_learnings
            ELSE /\ runs' = [runs EXCEPT ![r].pc = "action",
                                         ![r].pending = ParseActions(reply)]
                 /\ UNCHANGED <<session_learnings, conversation_history>>
    /\ UNCHANGED <<current_state, state_history, sandbox, error_memory,
                   max_iterations, otherVars>>

\* Lines 381-406: validate_action(action["type"]) on the state machine.
RunHandleAction(r) ==
    /\ At(r, "action")
    /\ runs[r].pending # <<>>
    /\ LET a == Head(runs[r].pending)
           v == ValidateAction(a, current_state)
           check == [action |-> a, state |-> current_state, ok |-> v.ok] IN
       IF ~v.ok
       THEN /\ conversation_history' =
                   AppendTurn(conversation_history, Owned(r, RejectionTurn(a)))
            /\ runs' = [runs EXCEPT
                          ![r].pc = AfterAction(Tail(runs[r].pending)),
                          ![r].pending = Tail(runs[r].pending),
                          ![r].checked = Append(runs[r].checked, check)]
       ELSE /\ runs' = [runs EXCEPT
                          ![r].pc = "executing",
                          ![r].checked = Append(runs[r].checked, check)]
            /\ UNCHANGED conversation_history
    /\ UNCHANGED <<current_state, state_history, sandbox, error_memory,
                   session_learnings, max_iterations, otherVars>>

\* Lines 408-463: await self._execute_action(action), the feedback, the
\* error record.
RunExecuteAction(r, success, raises) ==
    /\ At(r, "executing")
    /\ runs[r].pending # <<>>
    /\ raises => ~success
    /\ LET a == Head(runs[r].pending) IN
       /\ conversation_history' =
              AppendTurn(conversation_history, Owned(r, FeedbackTurn(a, success)))
       /\ error_memory' =
              RecordFailure(error_memory, success,
                            [action |-> a, iteration |-> runs[r].iteration])
       /\ runs' = IF raises
                  THEN [runs EXCEPT ![r].pc = AfterIterationError,
                                    ![r].pending = <<>>]
                  ELSE [runs EXCEPT ![r].pc = AfterAction(Tail(runs[r].pending)),
                                    ![r].pending = Tail(runs[r].pending)]
    /\ UNCHANGED <<current_state, state_history, sandbox, session_learnings,
                   max_iterations, otherVars>>

\* PHASE 3, lines 465-479.
RunLearning(r) ==
    /\ At(r, "learning")
    /\ set_state("learning")
    /\ session_learnings' =
          IF TimedOut(runs[r].iteration, max_iterations)
          THEN ExtractLearningsFromErrors(session_learnings, error_memory)
          ELSE session_learnings
    /\ runs' = [runs EXCEPT ![r].pc = "finally"]
    /\ UNCHANGED <<sandbox, conversation_history, error_memory, max_iterations,
                   otherVars>>

\* finally: lines 489-506.
RunFinally(r) ==
    /\ At(r, "finally")
    /\ set_state("idle")
    /\ runs' = [runs EXCEPT ![r].pc = "done"]
    /\ UNCHANGED <<sandbox, conversation_history, error_memory,
                   session_learnings, max_iterations, otherVars>>

NextTwo ==
    \E r \in Runs :
        \/ RunStart(r)
        \/ \E ok \in BOOLEAN : RunSandboxInit(r, ok)
        \/ RunEnterPlanning(r)
        \/ \E ok \in BOOLEAN : RunCreatePlan(r, ok)
        \/ RunSaveTodo(r)
        \/ RunEnterExecuting(r)
        \/ RunSeed(r)
        \/ RunLoopHead(r)
        \/ RunRequest(r)
        \/ \E reply \in RunReplies : RunCompletionReturns(r, reply)
        \/ RunCompletionRaises(r)
        \/ RunCheckReply(r)
        \/ RunHandleAction(r)
        \/ \E success \in BOOLEAN, raises \in BOOLEAN : RunExecuteAction(r, success, raises)
        \/ RunLearning(r)
        \/ RunFinally(r)

SpecTwo == InitTwo /\ [][NextTwo]_vars

(***************************************************************************)
(* The orchestrator: the arguments of a call.                              *)
(***************************************************************************)
AggregationStrategies == {"concat", "vote", "merge", "other"}

MinAgreements == {Ratio(0, 1), Ratio(3, 5), Ratio(1, 1)}

\* A task definition: task_def["agent_type"], task_def["description"] (the
\* position in the list stands for its text) and task_def.get("strict", False).
TaskLists(stricts) ==
    UNION {{[i \in 1..n |-> [agent_type |-> f[i].a, description |-> i,
                             strict |-> f[i].s]] :
               f \in [1..n -> [a : AgentType, s : stricts]]} :
           n \in 0..MaxTasks}

\* execute_consensus: one task per consulted agent, all with the same text.
ConsensusTasks(agent_list) ==
    [i \in DOMAIN agent_list |->
        [agent_type |-> agent_list[i], description |-> 0, strict |-> FALSE]]

AgentLists == UNION {[1..n -> AgentType] : n \in 0..MaxTasks}

Calls ==
    {[mode |-> "sequential", tasks |-> t, aggregation_strategy |-> "None",
      min_agreement |-> Ratio(0, 1)] : t \in TaskLists(BOOLEAN)}
    \cup
    {[mode |-> "parallel", tasks |-> t, aggregation_strategy |-> "None",
      min_agreement |-> Ratio(0, 1)] : t \in TaskLists({FALSE})}
    \cup
    {[mode |-> "hierarchical", tasks |-> t, aggregation_strategy |-> a,
      min_agreement |-> Ratio(0, 1)] :
        t \in TaskLists({FALSE}), a \in AggregationStrategies}
    \cup
    {[mode |-> "consensus", tasks |-> ConsensusTasks(l),
      aggregation_strategy |-> "None", min_agreement |-> m] :
        l \in AgentLists, m \in MinAgreements}

(***************************************************************************)
(* The orchestrator: pure parts.                                           *)
(***************************************************************************)
\* DelegatedTask(task_id=..., agent_type=..., description=..., ...).
NewTask(id, def, parent) ==
    [task_id |-> id, agent_type |-> def.agent_type,
     description |-> def.description, status |-> "pending",
     result |-> NoneValue, error |-> NoError, started_at |-> FALSE,
     completed_at |-> FALSE, parent_task_id |-> parent]

AgentCheckRegisteredOnly(registry, agent_type) ==
    IF agent_type \notin DOMAIN registry THEN "not registered" ELSE "ok"

\* Lines 251-258: get_agent, "if not agent", "if not agent.active".
AgentCheck(registry, agent_type) ==
    IF agent_type \notin DOMAIN registry THEN "not registered"
    ELSE IF ~registry[agent_type].active THEN "is not active"
    ELSE "ok"

\* A refusal that returns the task as it was created.
RefusedLeftPending(task, verdict) == task

\* Lines 253-254 and 259-260: the task is failed with an error naming the agent.
Refused(task, verdict) ==
    [task EXCEPT !.status = "failed",
                 !.error = [text |-> verdict, agent |-> task.agent_type]]

\* A task whose executor is invoked while it is still Pending.
StartedLeftPending(task) == [task EXCEPT !.started_at = TRUE]

\* Lines 265-266.
Started(task) == [task EXCEPT !.status = "in_progress", !.started_at = TRUE]

\* Lines 272-274.
Completed(task, value) ==
    [task EXCEPT !.status = "completed", !.result = value, !.completed_at = TRUE]

ExecutorFailedUncaught(task) == task

\* Lines 279-282: except Exception as e.
ExecutorFailed(task) ==
    [task EXCEPT !.status = "failed",
                 !.error = [text |-> "executor exception", agent |-> "None"],
                 !.completed_at = TRUE]

SequentialStopsOnFailure(task, def) == task.status = "failed"

\* Line 320: if task.status == TaskStatus.FAILED and task_def.get("strict", False).
SequentialStops(task, def) == task.status = "failed" /\ def.strict

GatherResultsReversed(sl) == [i \in DOMAIN sl |-> sl[Len(sl) + 1 - i].task_id]

\* Line 356: asyncio.gather returns the results in the order of its arguments.
GatherResults(sl) == [i \in DOMAIN sl |-> sl[i].task_id]

IsCompleted(t) == t.status = "completed"
IsFailed(t) == t.status = "failed"

\* [t for t in results if t.status == TaskStatus.COMPLETED]
Successful(ts) == SelectSeq(ts, IsCompleted)

ConcatAll(ts) == [i \in DOMAIN ts |-> ts[i].result]

\* "concat" (and any unknown strategy): [t.result for t in successful].
Concat(ts) == [i \in DOMAIN Successful(ts) |-> Successful(ts)[i].result]

\* result_counts[key] = result_counts.get(key, 0) + 1 on a dict, which keeps
\* its keys in the order of their first insertion.
AddVote(votes, key) ==
    IF \E i \in DOMAIN votes : votes[i].key = key
    THEN [i \in DOMAIN votes |->
             IF votes[i].key = key
             THEN [votes[i] EXCEPT !.count = @ + 1] ELSE votes[i]]
    ELSE Append(votes, [key |-> key, count |-> 1])

RECURSIVE CountVotes(_, _)
CountVotes(ts, votes) ==
    IF ts = <<>> THEN votes
    ELSE CountVotes(Tail(ts), AddVote(votes, Str(Head(ts).result)))

\* max(votes.items(), key=lambda x: x[1]): the first item with the largest count.
MaxByCount(votes) ==
    votes[CHOOSE i \in DOMAIN votes :
             \A j \in DOMAIN votes :
                 \/ votes[j].count < votes[i].count
                 \/ votes[j].count = votes[i].count /\ i <= j]

\* "vote", lines 532-540: the winning key is returned.
Vote(ts) ==
    IF Successful(ts) = <<>> THEN NoneValue
    ELSE MaxByCount(CountVotes(Successful(ts), <<>>)).key

SetItemKeepFirst(items, it) ==
    IF \E i \in DOMAIN items : items[i].k = it.k THEN items
    ELSE Append(items, it)

\* dict.update, one item: an existing key keeps its place and takes the new
\* value, a new key is added at the end.
SetItem(items, it) ==
    IF \E i \in DOMAIN items : items[i].k = it.k
    THEN [i \in DOMAIN items |-> IF items[i].k = it.k THEN it ELSE items[i]]
    ELSE Append(items, it)

RECURSIVE DictUpdate(_, _)
DictUpdate(items, new) ==
    IF new = <<>> THEN items
    ELSE DictUpdate(SetItem(items, Head(new)), Tail(new))

RECURSIVE MergeAll(_, _)
MergeAll(ts, merged) ==
    IF ts = <<>> THEN merged
    ELSE MergeAll(Tail(ts),
                  IF Head(ts).result.kind = "dict"
                  THEN DictUpdate(merged, Head(ts).result.items)
                  ELSE merged)

\* "merge", lines 542-548.
Merge(ts) == DictValue(MergeAll(Successful(ts), <<>>))

\* _aggregate_results, lines 511-551.
AggregateResults(ts, strategy) ==
    IF strategy = "concat" THEN Concat(ts)
    ELSE IF strategy = "vote" THEN Vote(ts)
    ELSE IF strategy = "merge" THEN Merge(ts)
    ELSE Concat(ts)

CountStatus(ts, status) == Len(SelectSeq(ts, LAMBDA t : t.status = status))

\* Lines 422-430.
SubtaskDetails(ts) ==
    [i \in DOMAIN ts |->
        [task_id |-> ts[i].task_id, agent |-> ts[i].agent_type,
         status |-> ts[i].status, result |-> ts[i].result]]

\* Lines 415-431.
HierarchicalResult(ts, parent, strategy) ==
    [kind |-> "hierarchical", parent_task_id |-> parent,
     subtasks_count |-> Len(ts),
     successful |-> CountStatus(ts, "completed"),
     failed |-> CountStatus(ts, "failed"),
     results |-> AggregateResults(ts, strategy),
     subtask_details |-> SubtaskDetails(ts)]

AgreementInverted(winner_count, successful_count) ==
    Ratio(successful_count, winner_count)

\* Line 488: agreement = winner[1] / len(successful).
Agreement(winner_count, successful_count) == Ratio(winner_count, successful_count)

ConsensusReachedStrict(agreement, min) ==
    agreement.num * min.den > min.num * agreement.den

\* Line 490: consensus_reached = agreement >= min_agreement.
ConsensusReached(agreement, min) ==
    agreement.num * min.den >= min.num * agreement.den

\* Lines 470-509.
ConsensusResult(ts, min) ==
    IF Successful(ts) = <<>>
    THEN [kind |-> "consensus", consensus |-> FALSE, agreement |-> Ratio(0, 1),
          error |-> "No agents completed successfully"]
    ELSE LET votes == CountVotes(Successful(ts), <<>>)
             winner == MaxByCount(votes)
             agreement == Agreement(winner.count, Len(Successful(ts))) IN
         [kind |-> "consensus",
          consensus |-> ConsensusReached(agreement, min),
          agreement |-> agreement,
          winning_result |-> winner.key,
          votes |-> votes,
          total_agents |-> Len(ts),
          successful_agents |-> Len(Successful(ts)),
          individual_results |->
              [i \in DOMAIN Successful(ts) |->
                  [agent |-> Successful(ts)[i].agent_type,
                   result |-> Successful(ts)[i].result]]]

(***************************************************************************)
(* The orchestrator: one call, its delegations running as coroutines.      *)
(***************************************************************************)
InitOrch ==
    /\ current_state = "idle"
    /\ state_history = <<>>
    /\ validated = NoValidation
    /\ sandbox = FALSE
    /\ conversation_history = <<>>
    /\ session_learnings = <<>>
    /\ hist_start = 0
    /\ error_memory = <<>>
    /\ max_iterations = 0
    /\ pc = "start"
    /\ iteration = 0
    /\ pending = <<>>
    /\ events = <<>>
    /\ effector_calls = <<>>
    /\ abandoned = FALSE
    /\ agents = InitialAgents
    /\ tasks = [id \in {} |-> id]
    /\ task_counter = 0
    /\ call \in Calls
    /\ opc = "called"
    /\ slots = <<>>
    /\ results = <<>>
    /\ parent_task_id = NoId
    /\ ret = NoReturn
    /\ executor_calls = <<>>
    /\ overtaken = FALSE
    /\ SideIdle

\* One coroutine per task definition, not yet run.
NewSlots == [i \in DOMAIN call.tasks |-> [state |-> "created", task_id |-> NoId]]

\* The DelegatedTask objects behind a list of ids.
TaskRecords(ids) == [i \in DOMAIN ids |-> tasks[ids[i]]]

\* execute_sequential is entered: results = [].
ExecuteSequential ==
    /\ opc = "called"
    /\ call.mode = "sequential"
    /\ results' = <<>>
    /\ slots' = NewSlots
    /\ opc' = "sequential"
    /\ UNCHANGED <<agents, tasks, task_counter, call, parent_task_id, ret,
                   executor_calls, overtaken>>
    /\ UNCHANGED <<maskVars, loopVars, sideVars>>

\* execute_parallel is entered: the coroutines are created and gathered.
ExecuteParallel ==
    /\ opc = "called"
    /\ call.mode = "parallel"
    /\ slots' = NewSlots
    /\ opc' = "gather"
    /\ UNCHANGED <<agents, tasks, task_counter, call, results, parent_task_id,
                   ret, executor_calls, overtaken>>
    /\ UNCHANGED <<maskVars, loopVars, sideVars>>

\* execute_hierarchical, lines 403-408: the parent id takes a counter value,
\* then execute_parallel is entered.
ExecuteHierarchical ==
    /\ opc = "called"
    /\ call.mode = "hierarchical"
    /\ task_counter' = task_counter + 1
    /\ parent_task_id' = TaskId(task_counter + 1, "hierarchical")
    /\ slots' = NewSlots
    /\ opc' = "gather"
    /\ UNCHANGED <<agents, tasks, call, results, ret, executor_calls, overtaken>>
    /\ UNCHANGED <<maskVars, loopVars, sideVars>>

\* execute_consensus, lines 457-468: one task per agent, execute_parallel.
ExecuteConsensus ==
    /\ opc = "called"
    /\ call.mode = "consensus"
    /\ slots' = NewSlots
    /\ opc' = "gather"
    /\ UNCHANGED <<agents, tasks, task_counter, call, results, parent_task_id,
                   ret, executor_calls, overtaken>>
    /\ UNCHANGED <<maskVars, loopVars, sideVars>>

\* The loop of execute_sequential has broken or run out.
SequentialOver ==
    \/ Len(results) = Len(call.tasks)
    \/ /\ results # <<>>
       /\ SequentialStops(tasks[results[Len(results)]], call.tasks[Len(results)])

\* A loop that starts a delegation without awaiting the one before.
SequentialTurnUnawaited(i) == TRUE

\* Lines 309-316: the loop reaches the i-th definition when the delegations
\* of the i - 1 before it were awaited and appended.
SequentialTurn(i) == i = Len(results) + 1

\* delegate_task has returned to its caller: execute_sequential appends the
\* task to its results, gather keeps it for its own return.
Returned(i, id, task) ==
    /\ tasks' = (id :> task) @@ tasks
    /\ slots' = [slots EXCEPT ![i] = [state |-> "returned", task_id |-> id]]
    /\ results' = IF opc = "sequential" THEN Append(results, id) ELSE results

\* delegate_task, lines 234-270: from its entry to the executor's invocation,
\* or to the early return.  The coroutines of a gather start in list order.
DelegateTask(i) ==
    /\ i \in DOMAIN slots
    /\ slots[i].state = "created"
    /\ \A j \in 1..(i - 1) : slots[j].state # "created"
    /\ \/ opc = "gather"
       \/ opc = "sequential" /\ SequentialTurn(i) /\ ~SequentialOver
    /\ LET id == TaskId(task_counter + 1, "timestamp")
           task == NewTask(id, call.tasks[i], parent_task_id)
           verdict == AgentCheck(agents, task.agent_type) IN
       /\ task_counter' = task_counter + 1
       /\ IF verdict # "ok"
          THEN /\ Returned(i, id, Refused(task, verdict))
               /\ UNCHANGED executor_calls
          ELSE /\ tasks' = (id :> Started(task)) @@ tasks
               /\ slots' = [slots EXCEPT ![i] = [state |-> "awaiting", task_id |-> id]]
               /\ executor_calls' =
                      Append(executor_calls,
                             [agent_type |-> task.agent_type, task_id |-> id,
                              executor |-> agents[task.agent_type].executor])
               /\ UNCHANGED results
    /\ UNCHANGED <<agents, call, opc, parent_task_id, ret, overtaken>>
    /\ UNCHANGED <<maskVars, loopVars, sideVars>>

\* Some coroutine listed earlier is still waiting for its executor.
Overtakes(i) == \E j \in 1..(i - 1) : slots[j].state = "awaiting"

\* await agent.executor(...) returns a value.
ExecutorReturns(i, value) ==
    /\ i \in DOMAIN slots
    /\ slots[i].state = "awaiting"
    /\ Returned(i, slots[i].task_id, Completed(tasks[slots[i].task_id], value))
    /\ overtaken' = (overtaken \/ Overtakes(i))
    /\ UNCHANGED <<agents, task_counter, call, opc, parent_task_id, ret,
                   executor_calls>>
    /\ UNCHANGED <<maskVars, loopVars, sideVars>>

\* await agent.executor(...) raises an Exception.
ExecutorRaises(i) ==
    /\ i \in DOMAIN slots
    /\ slots[i].state = "awaiting"
    /\ Returned(i, slots[i].task_id, ExecutorFailed(tasks[slots[i].task_id]))
    /\ overtaken' = (overtaken \/ Overtakes(i))
    /\ UNCHANGED <<agents, task_counter, call, opc, parent_task_id, ret,
                   executor_calls>>
    /\ UNCHANGED <<maskVars, loopVars, sideVars>>

\* execute_sequential returns its results.
SequentialReturns ==
    /\ opc = "sequential"
    /\ \A i \in DOMAIN slots : slots[i].state # "awaiting"
    /\ SequentialOver
    /\ ret' = [kind |-> "tasks", tasks |-> TaskRecords(results)]
    /\ opc' = "done"
    /\ UNCHANGED <<agents, tasks, task_counter, call, slots, results,
                   parent_task_id, executor_calls, overtaken>>
    /\ UNCHANGED <<maskVars, loopVars, sideVars>>

\* asyncio.gather(..., return_exceptions=True) has a result for every
\* coroutine: the task it returned or the Exception it raised.
Gathered == \A i \in DOMAIN slots : slots[i].state \in {"returned", "raised"}

\* The coroutines up to the i-th whose result is an Exception.
RaisedUpTo(i) == {j \in 1..i : slots[j].state = "raised"}

\* Lines 361-373: the task made for a result that is an Exception.  It takes
\* the next counter value and is given neither the parent id nor a place in
\* self.tasks.
FailedTask(n, def) ==
    [task_id |-> TaskId(n, "failed"), agent_type |-> def.agent_type,
     description |-> def.description, status |-> "failed",
     result |-> NoneValue,
     error |-> [text |-> "delegate exception", agent |-> "None"],
     started_at |-> FALSE, completed_at |-> FALSE, parent_task_id |-> NoId]

\* Lines 358-375: processed_results, in the order of the gathered results.
ProcessedResults ==
    [i \in DOMAIN slots |->
        IF slots[i].state = "raised"
        THEN FailedTask(task_counter + Cardinality(RaisedUpTo(i)), call.tasks[i])
        ELSE tasks[GatherResults(slots)[i]]]

\* The counter after the loop of lines 360-375.
ProcessedCounter == task_counter + Cardinality(RaisedUpTo(Len(slots)))

\* execute_parallel returns processed_results to an outside caller.
ParallelReturns ==
    /\ opc = "gather"
    /\ call.mode = "parallel"
    /\ Gathered
    /\ ret' = [kind |-> "tasks", tasks |-> ProcessedResults]
    /\ opc' = "done"
    /\ task_counter' = ProcessedCounter
    /\ UNCHANGED <<agents, tasks, call, slots, results,
                   parent_task_id, executor_calls, overtaken>>
    /\ UNCHANGED <<maskVars, loopVars, sideVars>>

\* execute_parallel returns to execute_hierarchical, which aggregates.
HierarchicalReturns ==
    /\ opc = "gather"
    /\ call.mode = "hierarchical"
    /\ Gathered
    /\ ret' = HierarchicalResult(ProcessedResults,
                                 parent_task_id, call.aggregation_strategy)
    /\ opc' = "done"
    /\ task_counter' = ProcessedCounter
    /\ UNCHANGED <<agents, tasks, call, slots, results,
                   parent_task_id, executor_calls, overtaken>>
    /\ UNCHANGED <<maskVars, loopVars, sideVars>>

\* execute_parallel returns to execute_consensus, which counts the votes.
ConsensusReturns ==
    /\ opc = "gather"
    /\ call.mode = "consensus"
    /\ Gathered
    /\ ret' = ConsensusResult(ProcessedResults, call.min_agreement)
    /\ opc' = "done"
    /\ task_counter' = ProcessedCounter
    /\ UNCHANGED <<agents, tasks, call, slots, results,
                   parent_task_id, executor_calls, overtaken>>
    /\ UNCHANGED <<maskVars, loopVars, sideVars>>

NextOrch ==
    \/ ExecuteSequential
    \/ ExecuteParallel
    \/ ExecuteHierarchical
    \/ ExecuteConsensus
    \/ \E i \in 1..MaxTasks : DelegateTask(i)
    \/ \E i \in 1..MaxTasks, value \in ExecutorResults : ExecutorReturns(i, value)
    \/ \E i \in 1..MaxTasks : ExecutorRaises(i)
    \/ SequentialReturns
    \/ ParallelReturns
    \/ HierarchicalReturns
    \/ ConsensusReturns

SpecOrch == InitOrch /\ [][NextOrch]_vars

(***************************************************************************)
(* The orchestration calls while other coroutines change the registry      *)
(* (register_agent, lines 110-143; unregister_agent, lines 145-160).       *)
(***************************************************************************)
\* The agent types registered or unregistered, and the executor a
\* registration brings: another callable than the ones of the start.
ChangedAgentTypes == {"knowledge", "browser"}
NewExecutor == 2

RegistryCalls == {c \in Calls : Len(c.tasks) <= MaxRegistryTasks}

InitRegistry ==
    /\ WorkerIdle
    /\ QueryIdle
    /\ ParseIdle
    /\ RunsIdle
    /\ RegistryIdle
    /\ agents = InitialAgents
    /\ tasks = [id \in {} |-> id]
    /\ task_counter = 0
    /\ call \in RegistryCalls
    /\ opc = "called"
    /\ slots = <<>>
    /\ results = <<>>
    /\ parent_task_id = NoId
    /\ ret = NoReturn
    /\ executor_calls = <<>>
    /\ overtaken = FALSE

registryFrame ==
    <<maskVars, loopVars, tasks, task_counter, call, opc, slots, results,
      parent_task_id, ret, executor_calls, overtaken, definitions, logit_bias,
      message, parsed, runs>>

\* register_agent: self.agents[agent_type] = RegisteredAgent(..., executor).
RegisterAgent(agent_type, executor) ==
    /\ opc # "done"
    /\ registry_changes < MaxRegistryChanges
    /\ registry_changes' = registry_changes + 1
    /\ agents' = (agent_type :> [active |-> TRUE, executor |-> executor]) @@ agents
    /\ UNCHANGED registryFrame

\* unregister_agent: del self.agents[agent_type] when it is there.
UnregisterAgent(agent_type) ==
    /\ opc # "done"
    /\ registry_changes < MaxRegistryChanges
    /\ registry_changes' = registry_changes + 1
    /\ agents' = IF agent_type \in DOMAIN agents
                 THEN [t \in DOMAIN agents \ {agent_type} |-> agents[t]]
                 ELSE agents
    /\ UNCHANGED registryFrame

\* What the executors return here.
RegistryResults == {StrValue("text")}

NextRegistry ==
    \/ ExecuteSequential
    \/ ExecuteParallel
    \/ ExecuteHierarchical
    \/ ExecuteConsensus
    \/ \E i \in 1..MaxTasks : DelegateTask(i)
    \/ \E i \in 1..MaxTasks, value \in RegistryResults : ExecutorReturns(i, value)
    \/ \E i \in 1..MaxTasks : ExecutorRaises(i)
    \/ SequentialReturns
    \/ ParallelReturns
    \/ HierarchicalReturns
    \/ ConsensusReturns
    \/ \E agent_type \in ChangedAgentTypes : RegisterAgent(agent_type, NewExecutor)
    \/ \E agent_type \in ChangedAgentTypes : UnregisterAgent(agent_type)

SpecRegistry == InitRegistry /\ [][NextRegistry]_vars

(***************************************************************************)
(* The orchestration calls when an Exception leaves a delegate_task        *)
(* coroutine.                                                              *)
(***************************************************************************)
\* Lines 279-281: the handler has set the status and raises in str(e); the
\* error and completed_at are not assigned.
HandlerRaised(task) == [task EXCEPT !.status = "failed"]

\* await agent.executor(...) raises an Exception whose rendering raises: the
\* handler of lines 279-284 raises in turn and the Exception leaves
\* delegate_task.  gather keeps it as the coroutine's result (line 356);
\* execute_sequential is left by it (line 310).
DelegateTaskRaises(i) ==
    /\ i \in DOMAIN slots
    /\ slots[i].state = "awaiting"
    /\ tasks' = [tasks EXCEPT ![slots[i].task_id] = HandlerRaised(@)]
    /\ slots' = [slots EXCEPT ![i].state = "raised"]
    /\ opc' = IF opc = "sequential" THEN "raised" ELSE opc
    /\ overtaken' = (overtaken \/ Overtakes(i))
    /\ UNCHANGED <<agents, task_counter, call, results, parent_task_id, ret,
                   executor_calls>>
    /\ UNCHANGED <<maskVars, loopVars, sideVars>>

NextEscape ==
    \/ ExecuteSequential
    \/ ExecuteParallel
    \/ ExecuteHierarchical
    \/ ExecuteConsensus
    \/ \E i \in 1..MaxTasks : DelegateTask(i)
    \/ \E i \in 1..MaxTasks, value \in RegistryResults : ExecutorReturns(i, value)
    \/ \E i \in 1..MaxTasks : ExecutorRaises(i)
    \/ \E i \in 1..MaxTasks : DelegateTaskRaises(i)
    \/ SequentialReturns
    \/ ParallelReturns
    \/ HierarchicalReturns
    \/ ConsensusReturns

SpecEscape == InitOrch /\ [][NextEscape]_vars


(***************************************************************************)
(* Operators used to state the properties.                                 *)
(***************************************************************************)
IsPrefix(s, t) == Len(s) <= Len(t) /\ SubSeq(t, 1, Len(s)) = s

HasEventType(type) == \E i \in DOMAIN events : events[i].type = type

IsDecision(e) == e.type \in {"action_rejected", "action_executing"}
IsRejection(e) == e.type = "action_rejected"
IsExecuting(e) == e.type = "action_executing"
IsRejectionTurn(t) == t.tag = "rejected"

RECURSIVE Infos(_)
Infos(s) == IF s = <<>> THEN <<>> ELSE <<Head(s).info>> \o Infos(Tail(s))

RECURSIVE Kinds(_)
Kinds(s) == IF s = <<>> THEN <<>> ELSE <<Head(s).kind>> \o Kinds(Tail(s))

\* The actions of all replies of the conversation that carry no completion
\* marker, in order.
RECURSIVE AllParsed(_)
AllParsed(h) ==
    IF h = <<>> THEN <<>>
    ELSE (IF Head(h).role = "assistant" /\ ~Head(h).reply.marker
          THEN ParseActions(Head(h).reply) ELSE <<>>) \o AllParsed(Tail(h))

NoMarkerReply ==
    \A i \in DOMAIN conversation_history :
        conversation_history[i].role = "assistant"
            => ~conversation_history[i].reply.marker

RunTransitions == SubSeq(state_history, hist_start + 1, Len(state_history))

TerminalTypes == {"task_completed", "task_timeout", "task_failed"}

\* The run has ended and the consumer read the stream to its end.
RunDone == pc = "done" /\ ~abandoned

(***************************************************************************)
(* C1: after set_state(s), validate_action(k) is ok iff s is in the        *)
(* allowed-state set of k in the table; a name outside the catalog is      *)
(* rejected with an "Unknown action" reason, in every state.               *)
(***************************************************************************)
C1_ValidateMatchesTable ==
    /\ \A k \in ToolNames :
          ValidateAction(k, current_state).ok <=> current_state \in ALL_TOOLS[k]
    /\ ~ValidateAction(UnknownAction, current_state).ok
    /\ ValidateAction(UnknownAction, current_state).reason = "Unknown action"
    /\ validated.action \in ToolNames =>
          (validated.ok <=> validated.state \in ALL_TOOLS[validated.action])
    /\ validated.action = UnknownAction =>
          ~validated.ok /\ validated.reason = "Unknown action"

C1_Witness ==
    /\ state_history # <<>>
    /\ validated.action = "CREATE_FILE"
    /\ validated.state = "planning"
    /\ current_state = "planning"
    /\ ~validated.ok

(***************************************************************************)
(* C2: the effector is called only for actions that validate ok in the     *)
(* state current at the call; every handled action is either rejected      *)
(* (one action_rejected event, one rejection turn, no effector call) or    *)
(* executed.                                                               *)
(***************************************************************************)
C2_OnlyValidExecuted ==
    LET decisions == SelectSeq(events, IsDecision)
        rejected  == SelectSeq(events, IsRejection)
        executing == SelectSeq(events, IsExecuting)
    IN
    /\ \A i \in DOMAIN effector_calls :
          /\ effector_calls[i].kind \in ToolNames
          /\ effector_calls[i].state \in ALL_TOOLS[effector_calls[i].kind]
    /\ Len(effector_calls) \in {Len(executing) - 1, Len(executing)}
    /\ (pc # "executing" /\ ~abandoned) => Len(effector_calls) = Len(executing)
    /\ Kinds(effector_calls) = SubSeq(Infos(executing), 1, Len(effector_calls))
    /\ Infos(rejected) = Infos(SelectSeq(conversation_history, IsRejectionTurn))
    /\ decisions # <<>> =>
          /\ IsPrefix(Infos(decisions), AllParsed(conversation_history))
          /\ \A i \in DOMAIN decisions :
                IsRejection(decisions[i]) =>
                    current_state \notin ALL_TOOLS[decisions[i].info]
                    \/ pc \in {"finally", "done"}

C2_Witness ==
    /\ HasEventType("action_rejected")
    /\ effector_calls # <<>>
    /\ pc = "loop"

(***************************************************************************)
(* C3: in state Executing every catalog tool validates ok, and in each     *)
(* state every tool that the guidance text names as available validates    *)
(* ok.                                                                     *)
(***************************************************************************)
C3_GuidanceToolsAccepted ==
    /\ current_state = "executing" =>
          \A k \in ToolNames : ValidateAction(k, current_state).ok
    /\ \A k \in StatePromptTools(current_state) :
          ValidateAction(k, current_state).ok

(***************************************************************************)
(* C4: whatever the outcome, the last two transitions a run appends to     *)
(* the transition history are Learning, Idle.                              *)
(***************************************************************************)
C4_LearningThenIdle ==
    pc = "done" =>
        /\ Len(RunTransitions) >= 2
        /\ RunTransitions[Len(RunTransitions) - 1] = "learning"
        /\ RunTransitions[Len(RunTransitions)] = "idle"

(***************************************************************************)
(* C5: a run that performs all max_iterations iterations without a reply   *)
(* carrying the completion marker emits task_timeout (also when            *)
(* max_iterations = 0).                                                    *)
(***************************************************************************)
C5_TimeoutWhenExhausted ==
    (/\ RunDone
     /\ \E i \in DOMAIN events :
            events[i].type = "phase" /\ events[i].info = "execution"
     /\ iteration = max_iterations
     /\ NoMarkerReply)
        => HasEventType("task_timeout")

C5_Witness ==
    /\ RunDone
    /\ max_iterations = MaxIterations
    /\ iteration = max_iterations
    /\ NoMarkerReply
    /\ Len(conversation_history) >= 2 + max_iterations
    /\ HasEventType("task_timeout")

(***************************************************************************)
(* C6: every run emits at least one terminal outcome event                 *)
(* (task_completed, task_timeout or task_failed).                          *)
(***************************************************************************)
C6_TerminalEvent ==
    RunDone => \E i \in DOMAIN events : events[i].type \in TerminalTypes

(***************************************************************************)
(* C7: when an exception escapes the completion request or the processing  *)
(* of an iteration, a task_failed event is emitted after all the events    *)
(* emitted before the fault.                                               *)
(***************************************************************************)
C7_FaultGivesFailed ==
    RunDone =>
        \A i \in DOMAIN events :
            events[i].type = "error" =>
                \E j \in DOMAIN events : j > i /\ events[j].type = "task_failed"

(***************************************************************************)
(* C8 as stated: a completion call that fails in iteration i <             *)
(* max_iterations does not end the task; iteration i + 1 is started.       *)
(***************************************************************************)
C8_FailureRetried ==
    RunDone =>
        \A i \in DOMAIN events :
            (/\ events[i].type = "error"
             /\ events[i].info = "completion"
             /\ events[i].iteration < max_iterations)
                => \E j \in DOMAIN events :
                      /\ j > i
                      /\ events[j].type = "iteration"
                      /\ events[j].iteration = events[i].iteration + 1

(***************************************************************************)
(* C8 amended: a completion call that fails in iteration i ends the        *)
(* iteration loop: after the error event no iteration is started, no       *)
(* completion is received and no action is handled, and the run is in its  *)
(* Learning / Idle tail.                                                   *)
(***************************************************************************)
C8_FailureEndsLoop ==
    \A i \in DOMAIN events :
        (events[i].type = "error" /\ events[i].info = "completion") =>
            /\ pc \in {"learning", "finally", "done"}
            /\ iteration = events[i].iteration
            /\ \A j \in DOMAIN events :
                  j > i => events[j].type \in {"task_timeout", "statistics"}

C8_Witness ==
    /\ RunDone
    /\ \E i \in DOMAIN events :
          /\ events[i].type = "error"
          /\ events[i].info = "completion"
          /\ events[i].iteration < max_iterations

(***************************************************************************)
(* C9: from the seeding of the conversation to the end of the run the      *)
(* history only grows by appending: every step keeps the earlier turns at  *)
(* their index, unchanged.                                                 *)
(***************************************************************************)
SeededPcs == {"loop", "completion", "check", "action", "executing",
              "learning", "finally"}

C9_HistoryAppendOnly ==
    [][(pc \in SeededPcs) =>
          IsPrefix(conversation_history, conversation_history')]_vars

C9_Witness ==
    /\ RunDone
    /\ iteration = 2
    /\ Len(conversation_history) >= 6
    /\ HasEventType("action_rejected")

(***************************************************************************)
(* C10: the current state changes only at the phase boundaries; from       *)
(* entering Executing to the exit of the iteration loop it is Executing.   *)
(***************************************************************************)
LoopPcs == {"seed", "loop", "completion", "check", "action", "executing"}

C10_StateOnlyAtBoundaries ==
    /\ [](pc \in LoopPcs => current_state = "executing")
    /\ [][(current_state' # current_state) =>
            \/ pc \in {"start", "sandbox_ready"} /\ current_state' = "planning"
            \/ pc = "enter_exec" /\ current_state' = "executing"
            \/ pc = "learning" /\ current_state' = "learning"
            \/ pc' = "done" /\ current_state' = "idle"]_vars

C10_Witness ==
    /\ pc = "completion"
    /\ iteration = 2
    /\ current_state = "executing"
    /\ HasEventType("action_rejected")
    /\ effector_calls # <<>>
    /\ RunTransitions = <<"planning", "executing">>

\* C11: a reply of the run that contains the completion marker is the last
\* thing the conversation receives: the loop is left in that iteration, no
\* action of the iteration is validated or executed, no further completion
\* is requested, and task_completed is emitted for that iteration.
C11_MarkerStopsLoop ==
    HasEventType("iteration") =>
        \A i \in DOMAIN conversation_history :
            LET t == conversation_history[i] IN
            (t.role = "assistant" /\ t.reply.marker) =>
                /\ i = Len(conversation_history)
                /\ pc \in {"check", "learning", "finally", "done"}
                /\ pending = <<>>
                /\ \A k \in DOMAIN events :
                       IsDecision(events[k]) => events[k].iteration < iteration
                /\ Cardinality({k \in DOMAIN events :
                                   events[k].type = "agent_message"}) = iteration
                /\ (pc \in {"learning", "finally"} \/ RunDone) =>
                       \E k \in DOMAIN events :
                           /\ events[k].type = "task_completed"
                           /\ events[k].iteration = iteration

C11_Witness ==
    /\ RunDone
    /\ HasEventType("task_completed")
    /\ LastReply.marker
    /\ LastReply.blocks # <<>>
    /\ iteration = 2
    /\ HasEventType("action_executing")

(***************************************************************************)
(* Properties of the orchestrator.                                         *)
(***************************************************************************)
OrchDone(mode) == opc = "done" /\ call.mode = mode

AllStrict == \A i \in DOMAIN call.tasks : call.tasks[i].strict
NoneStrict == \A i \in DOMAIN call.tasks : ~call.tasks[i].strict

Describes(t, def) ==
    t.agent_type = def.agent_type /\ t.description = def.description

\* C12: execute_sequential, when every definition carries strict, returns
\* the tasks up to and including the first Failed one (all of them when none
\* failed); when no definition carries strict it returns one task per
\* definition; in general it stops exactly at the first Failed task whose
\* own definition carries strict.  Only the returned tasks were run.
C12_SequentialStrict ==
    OrchDone("sequential") =>
        LET rs == ret.tasks
            n == Len(call.tasks)
            failures == {i \in DOMAIN rs : rs[i].status = "failed"}
            stops == {i \in DOMAIN rs : rs[i].status = "failed" /\ call.tasks[i].strict} IN
        /\ Len(rs) <= n
        /\ \A i \in DOMAIN rs : Describes(rs[i], call.tasks[i])
        /\ task_counter = Len(rs)
        /\ (AllStrict /\ failures # {}) => failures = {Len(rs)}
        /\ (AllStrict /\ failures = {}) => Len(rs) = n
        /\ NoneStrict => Len(rs) = n
        /\ stops \subseteq {Len(rs)}
        /\ stops = {} => Len(rs) = n

C12_Witness ==
    /\ OrchDone("sequential")
    /\ AllStrict
    /\ Len(call.tasks) = 3
    /\ Len(ret.tasks) = 2
    /\ ret.tasks[1].status = "completed"
    /\ ret.tasks[2].status = "failed"

\* The DelegatedTask of coroutine i, once it exists.
SlotTask(i) == tasks[slots[i].task_id]

ExecutorRaisedFor(t) == t.error.text = "executor exception"

\* C13: the step in which one executor raises or returns changes that task
\* alone: it ends Failed with the error text, or Completed with the value;
\* no sibling's coroutine or task changes and the call itself goes on.
\* execute_parallel returns one Completed or Failed task per definition.
C13_ExceptionIsolated ==
    /\ [](OrchDone("parallel") =>
            /\ Len(ret.tasks) = Len(call.tasks)
            /\ \A i \in DOMAIN ret.tasks :
                   ret.tasks[i].status \in {"completed", "failed"})
    /\ [][\A i \in DOMAIN slots :
            (opc = "gather" /\ slots[i].state = "awaiting"
                 /\ slots'[i].state = "returned") =>
                /\ opc' = "gather"
                /\ \/ /\ tasks'[slots[i].task_id].status = "completed"
                      /\ tasks'[slots[i].task_id].error = NoError
                   \/ /\ tasks'[slots[i].task_id].status = "failed"
                      /\ tasks'[slots[i].task_id].error.text # "None"
                      /\ tasks'[slots[i].task_id].result = NoneValue
                /\ \A j \in DOMAIN slots \ {i} :
                       /\ slots'[j] = slots[j]
                       /\ slots[j].state # "created" =>
                              tasks'[slots[j].task_id] = tasks[slots[j].task_id]]_vars

C13_Witness ==
    /\ OrchDone("parallel")
    /\ Len(ret.tasks) = 3
    /\ ret.tasks[1].status = "completed"
    /\ ret.tasks[2].status = "failed"
    /\ ExecutorRaisedFor(ret.tasks[2])
    /\ ret.tasks[3].status = "completed"

\* C14: execute_parallel returns one task per definition and the i-th task
\* is the one made for the i-th definition, whatever the order in which the
\* executors finished.
C14_ParallelKeepsOrder ==
    OrchDone("parallel") =>
        /\ Len(ret.tasks) = Len(call.tasks)
        /\ \A i \in DOMAIN ret.tasks :
               /\ Describes(ret.tasks[i], call.tasks[i])
               /\ ret.tasks[i].task_id = slots[i].task_id

C14_Witness ==
    /\ OrchDone("parallel")
    /\ overtaken
    /\ Len(ret.tasks) = 3
    /\ \A i \in DOMAIN ret.tasks : ret.tasks[i].status = "completed"

Unavailable(agent_type) ==
    agent_type \notin DOMAIN agents \/ ~agents[agent_type].active

\* C15: a task for an agent that is not registered, or registered and not
\* active, is Failed from the moment it exists, with an error naming the
\* agent; it is never started and no executor is invoked for it.
C15_UnavailableAgentFails ==
    \A id \in DOMAIN tasks :
        Unavailable(tasks[id].agent_type) =>
            /\ tasks[id].status = "failed"
            /\ tasks[id].error.text \in {"not registered", "is not active"}
            /\ tasks[id].error.agent = tasks[id].agent_type
            /\ ~tasks[id].started_at
            /\ ~tasks[id].completed_at
            /\ \A k \in DOMAIN executor_calls : executor_calls[k].task_id # id

C15_Witness ==
    /\ OrchDone("sequential")
    /\ Len(ret.tasks) = 3
    /\ ret.tasks[1].error.text = "not registered"
    /\ ret.tasks[2].error.text = "is not active"
    /\ ret.tasks[3].status = "completed"
    /\ Len(executor_calls) = 1

ConsensusTasksReturned == TaskRecords(GatherResults(slots))

SuccessfulIndexes(ts) == {i \in DOMAIN ts : ts[i].status = "completed"}

\* C16: the agreement execute_consensus returns is a ratio between 0 and 1;
\* with no successful agent (an empty agent list included) it returns
\* consensus false and agreement 0.
C16_AgreementInUnitInterval ==
    OrchDone("consensus") =>
        /\ ret.agreement.den > 0
        /\ 0 <= ret.agreement.num
        /\ ret.agreement.num <= ret.agreement.den
        /\ SuccessfulIndexes(ConsensusTasksReturned) = {} =>
               (~ret.consensus /\ ret.agreement.num = 0)

C16_Witness ==
    /\ OrchDone("consensus")
    /\ Len(call.tasks) = 3
    /\ Cardinality(SuccessfulIndexes(ConsensusTasksReturned)) = 3
    /\ ret.agreement = Ratio(2, 3)
    /\ ret.consensus

\* Python equality of two results: dicts are equal when they hold the same
\* items, in whatever order they were inserted.
ValueEq(v, w) ==
    IF v.kind = "dict" /\ w.kind = "dict"
    THEN {v.items[i] : i \in DOMAIN v.items} = {w.items[i] : i \in DOMAIN w.items}
    ELSE v = w

SetMax(S) == CHOOSE x \in S : \A y \in S : y <= x

\* The largest number of successful tasks whose results are the same under
\* the relation same(_, _).
MaxCount(ts, same(_, _)) ==
    SetMax({Cardinality({j \in SuccessfulIndexes(ts) :
                            same(ts[j].result, ts[i].result)}) :
               i \in SuccessfulIndexes(ts)})

SameValue(v, w) == ValueEq(v, w)
SameText(v, w) == Str(v) = Str(w)

SameRatio(r, p, q) == r.num * q = p * r.den

\* C17 as stated: agreement is the largest number of successful agents with
\* the same result value over the number of successful agents, 0 with no
\* success, and consensus is reported iff agreement >= min_agreement.
C17_ConsensusIffAgreement ==
    OrchDone("consensus") =>
        LET ts == ConsensusTasksReturned
            n == Cardinality(SuccessfulIndexes(ts))
            m == call.min_agreement IN
        /\ IF n = 0 THEN ret.agreement.num = 0
           ELSE SameRatio(ret.agreement, MaxCount(ts, SameValue), n)
        /\ ret.consensus <=> (ret.agreement.num * m.den >= m.num * ret.agreement.den)

\* C17, amended: agreement is the largest number of successful agents whose
\* results have the same str() text over the number of successful agents, 0
\* with no success; consensus is reported iff at least one agent succeeded
\* and agreement >= min_agreement.
C17_ConsensusIffSuccessAndAgreement ==
    OrchDone("consensus") =>
        LET ts == ConsensusTasksReturned
            n == Cardinality(SuccessfulIndexes(ts))
            m == call.min_agreement IN
        /\ IF n = 0 THEN ret.agreement.num = 0
           ELSE SameRatio(ret.agreement, MaxCount(ts, SameText), n)
        /\ ret.consensus <=>
               (n > 0 /\ ret.agreement.num * m.den >= m.num * ret.agreement.den)

C17_Witness ==
    /\ OrchDone("consensus")
    /\ call.min_agreement = Ratio(1, 1)
    /\ Len(call.tasks) = 3
    /\ Cardinality(SuccessfulIndexes(ConsensusTasksReturned)) = 2
    /\ ret.agreement = Ratio(2, 2)
    /\ ret.consensus

HierarchicalTasksReturned == TaskRecords(GatherResults(slots))

DictIndexes(ts) ==
    {i \in SuccessfulIndexes(ts) : ts[i].result.kind = "dict"}

KeysOf(v) == {v.items[i].k : i \in DOMAIN v.items}

ValueAt(v, k) == v.items[CHOOSE i \in DOMAIN v.items : v.items[i].k = k].v

\* The last successful subtask, in list order, whose dict result holds key k.
LastHolder(ts, k) ==
    SetMax({i \in DictIndexes(ts) : k \in KeysOf(ts[i].result)})

\* C18: with "merge" the aggregated value is a dict whose keys are the keys
\* of the dict results of the successful subtasks, each mapped to the value
\* of the last successful subtask in list order that holds it; failed
\* subtasks and results that are not dicts contribute nothing.
C18_MergeLastWins ==
    (OrchDone("hierarchical") /\ call.aggregation_strategy = "merge") =>
        LET ts == HierarchicalTasksReturned
            merged == ret.results IN
        /\ merged.kind = "dict"
        /\ Cardinality(KeysOf(merged)) = Len(merged.items)
        /\ KeysOf(merged) = UNION {KeysOf(ts[i].result) : i \in DictIndexes(ts)}
        /\ \A k \in KeysOf(merged) :
               ValueAt(merged, k) = ValueAt(ts[LastHolder(ts, k)].result, k)

C18_Witness ==
    /\ OrchDone("hierarchical")
    /\ call.aggregation_strategy = "merge"
    /\ Len(call.tasks) = 3
    /\ ret.successful = 2
    /\ ret.failed = 1
    /\ \E i, j \in SuccessfulIndexes(HierarchicalTasksReturned) :
           /\ i < j
           /\ HierarchicalTasksReturned[i].result = DictValue(<<Item("a", 1)>>)
           /\ HierarchicalTasksReturned[j].result = DictValue(<<Item("b", 2)>>)
    /\ ret.results = DictValue(<<Item("a", 1), Item("b", 2)>>)

\* The number of successful subtasks whose result equals v.
Occurrences(ts, v) ==
    Cardinality({j \in SuccessfulIndexes(ts) : ValueEq(ts[j].result, v)})

\* C19: with "vote" and at least one successful subtask the aggregated value
\* is the result of a successful subtask that occurs most often among the
\* successful ones, the first such in list order on a tie.
C19_VoteReturnsMostFrequentValue ==
    (OrchDone("hierarchical") /\ call.aggregation_strategy = "vote"
        /\ SuccessfulIndexes(HierarchicalTasksReturned) # {}) =>
        LET ts == HierarchicalTasksReturned IN
        \E i \in SuccessfulIndexes(ts) :
            /\ ret.results = ts[i].result
            /\ \A j \in SuccessfulIndexes(ts) :
                   \/ Occurrences(ts, ts[j].result) < Occurrences(ts, ts[i].result)
                   \/ /\ Occurrences(ts, ts[j].result) = Occurrences(ts, ts[i].result)
                      /\ \E h \in SuccessfulIndexes(ts) :
                             h <= j /\ ValueEq(ts[h].result, ts[i].result)

\* The index of the k-th successful subtask.
KthSuccessful(ts, k) ==
    CHOOSE i \in SuccessfulIndexes(ts) :
        Cardinality({j \in SuccessfulIndexes(ts) : j <= i}) = k

\* C20: with "concat" the aggregated value lists the results of exactly the
\* successful subtasks in list order, and the counts are those of the
\* Completed and of the Failed subtasks, which add up to all subtasks.
C20_ConcatAndCounts ==
    (OrchDone("hierarchical") /\ call.aggregation_strategy = "concat") =>
        LET ts == HierarchicalTasksReturned IN
        /\ Len(ts) = Len(call.tasks)
        /\ Len(ret.results) = Cardinality(SuccessfulIndexes(ts))
        /\ \A k \in DOMAIN ret.results :
               ret.results[k] = ts[KthSuccessful(ts, k)].result
        /\ ret.successful = Cardinality(SuccessfulIndexes(ts))
        /\ ret.failed = Cardinality({i \in DOMAIN ts : ts[i].status = "failed"})
        /\ ret.successful + ret.failed = Len(call.tasks)
        /\ ret.subtasks_count = Len(call.tasks)

C20_Witness ==
    /\ OrchDone("hierarchical")
    /\ call.aggregation_strategy = "concat"
    /\ Len(call.tasks) = 3
    /\ HierarchicalTasksReturned[2].status = "failed"
    /\ ret.results = <<DictValue(<<Item("b", 2)>>), StrValue("text")>>
    /\ ret.successful = 2
    /\ ret.failed = 1

(***************************************************************************)
(* Properties of the catalog queries.                                      *)
(***************************************************************************)
EntryNames(text) == [i \in DOMAIN text.entries |-> text.entries[i].tool_name]

\* C21: every rendering lists every catalog tool once, in catalog order,
\* marked unavailable exactly when the tool is not available in the state
\* asked for; two renderings have the same header, names, descriptions and
\* formats, entry by entry, and differ at most in the markers.
C21_DefinitionsDifferInMarkerOnly ==
    /\ \A k \in DOMAIN definitions :
           LET d == definitions[k] IN
           /\ EntryNames(d.text) = ToolOrder
           /\ \A i \in DOMAIN d.text.entries :
                  (d.text.entries[i].availability = "unavailable") <=>
                      (d.state \notin ALL_TOOLS[d.text.entries[i].tool_name])
    /\ Len(definitions) = 2 =>
           LET t1 == definitions[1].text
               t2 == definitions[2].text IN
           /\ t1.header = t2.header
           /\ Len(t1.entries) = Len(t2.entries)
           /\ \A i \in DOMAIN t1.entries :
                  /\ i \in DOMAIN t2.entries
                  /\ t1.entries[i].index = t2.entries[i].index
                  /\ t1.entries[i].tool_name = t2.entries[i].tool_name
                  /\ t1.entries[i].description = t2.entries[i].description
                  /\ t1.entries[i].format = t2.entries[i].format

C21_Witness ==
    /\ Len(definitions) = 2
    /\ definitions[1].state = "planning"
    /\ definitions[2].state = "executing"
    /\ current_state = "executing"
    /\ definitions[1].text # definitions[2].text

\* C23: the bias made in a state has an entry for a catalog tool exactly
\* when the tool is not available in that state, which is exactly when
\* validate_action rejects it there; every weight is negative and no key
\* occurs twice.
C23_BiasMasksUnavailable ==
    logit_bias.state # "None" =>
        /\ \A t \in ToolNames :
               /\ (\E e \in logit_bias.bias : e.tool = t) <=>
                      (logit_bias.state \notin ALL_TOOLS[t])
               /\ (\E e \in logit_bias.bias : e.tool = t) <=>
                      ~ValidateAction(t, logit_bias.state).ok
        /\ \A e \in logit_bias.bias : e.tool \in ToolNames /\ e.weight < 0
        /\ \A e, f \in logit_bias.bias :
               (e.prefix = f.prefix /\ e.tool = f.tool) => e = f

C23_Witness ==
    /\ logit_bias.state = "planning"
    /\ current_state = "planning"
    /\ \E e \in logit_bias.bias : e.tool = "CREATE_FILE"
    /\ ~\E e \in logit_bias.bias : e.tool = "READ_FILE"

\* C24: a state machine starts in idle with an empty history; a step that
\* touches the history appends exactly the new current state to it and
\* leaves the recorded validation alone, so the history only grows by one
\* entry per transition and its last entry is the current state.
C24_SetStateAppends ==
    /\ [](/\ state_history = <<>> => current_state = "idle"
          /\ state_history # <<>> =>
                 current_state = state_history[Len(state_history)])
    /\ [][/\ (state_history' # state_history \/ current_state' # current_state) =>
                 /\ state_history' = Append(state_history, current_state')
                 /\ validated' = validated
          /\ IsPrefix(state_history, state_history')]_vars

C24_Witness ==
    /\ state_history = <<"learning", "idle", "browsing">>
    /\ current_state = "browsing"
    /\ pc = "start"

(***************************************************************************)
(* Properties of _parse_actions.                                           *)
(***************************************************************************)
\* The fields a block of each kind has to carry; a BROWSER block has to
\* carry TASK or ACTION_TYPE.
RequiredFields(name) ==
    CASE name = "CREATE_FILE" -> {"PATH", "CONTENT"}
      [] name = "READ_FILE"   -> {"PATH"}
      [] name = "EXECUTE"     -> {"COMMAND"}
      [] name = "LIST_FILES"  -> {"PATH"}
      [] name = "UPDATE_TODO" -> {"CONTENT"}
      [] name = "VERIFY"      -> {"WHAT", "HOW"}
      [] name = "SEARCH_WEB"  -> {"QUERY"}
      [] name = "DELEGATE"    -> {"AGENT_TYPE", "TASK"}
      [] OTHER                -> {}

LacksRequired(b) ==
    IF b.name = "BROWSER"
    THEN "TASK" \notin b.fields /\ "ACTION_TYPE" \notin b.fields
    ELSE ~(RequiredFields(b.name) \subseteq b.fields)

\* The key under which an action carries a field.
ArgKey(f) ==
    CASE f = "PATH" -> "path"
      [] f = "CONTENT" -> "content"
      [] f = "COMMAND" -> "command"
      [] f = "WHAT" -> "what"
      [] f = "HOW" -> "how"
      [] f = "TASK" -> "task"
      [] f = "ACTION_TYPE" -> "action_type"
      [] f = "QUERY" -> "query"
      [] f = "AGENT_TYPE" -> "agent_type"

\* The action carries, for field f, what the text of its block says.
CarriesFromText(a, f) ==
    /\ f \in message[a.header].fields
    /\ ArgKey(f) \in DOMAIN a.args
    /\ IF f = "AGENT_TYPE"
       THEN a.args[ArgKey(f)].field = message[a.header].agent
       ELSE a.args[ArgKey(f)] = Value(a.header, f)

\* The required fields of an action, given the mode of a BROWSER action.
RequiredOf(a) ==
    IF a.type = "BROWSER"
    THEN (IF a.args.mode = Default("task") THEN {"TASK"} ELSE {"ACTION_TYPE"})
    ELSE RequiredFields(a.type)

ActionsOfHeader(i) == {k \in DOMAIN parsed : parsed[k].header = i}

\* C25 as stated: for each of the nine kinds a block that lacks a required
\* field gives no action, and every action carries a value from the text of
\* its block for every required field of its kind.
C25_AllOrNothing ==
    parsed # NotParsed =>
        /\ \A i \in DOMAIN message :
               (message[i].name \in ParserKinds /\ LacksRequired(message[i])) =>
                   ActionsOfHeader(i) = {}
        /\ \A k \in DOMAIN parsed :
               /\ parsed[k].type = message[parsed[k].header].name
               /\ \A f \in RequiredOf(parsed[k]) : CarriesFromText(parsed[k], f)

\* C25, amended: the same for every kind but LIST_FILES; a LIST_FILES block
\* always gives an action, whose path is the text of PATH when the block has
\* one and "/workspace" when it has none.
C25_AllOrNothingButListFiles ==
    parsed # NotParsed =>
        /\ \A i \in DOMAIN message :
               (message[i].name \in ParserKinds \ {"LIST_FILES"}
                    /\ LacksRequired(message[i])) =>
                   ActionsOfHeader(i) = {}
        /\ \A i \in DOMAIN message :
               message[i].name = "LIST_FILES" => Cardinality(ActionsOfHeader(i)) = 1
        /\ \A k \in DOMAIN parsed :
               /\ parsed[k].type = message[parsed[k].header].name
               /\ IF parsed[k].type = "LIST_FILES"
                  THEN parsed[k].args.path =
                           IF "PATH" \in message[parsed[k].header].fields
                           THEN Value(parsed[k].header, "PATH")
                           ELSE Default("/workspace")
                  ELSE \A f \in RequiredOf(parsed[k]) : CarriesFromText(parsed[k], f)

C25_Witness ==
    /\ Len(message) = 2
    /\ message[1].name = "VERIFY"
    /\ message[1].fields = {"WHAT"}
    /\ message[2].name = "LIST_FILES"
    /\ message[2].fields = {}
    /\ parsed = <<ParsedAction(2, "LIST_FILES", [path |-> Default("/workspace")])>>

\* A block the parser has no action for: its name is no parser kind, or its
\* fields are malformed (a required field is missing, LIST_FILES apart, or the
\* worker kind of a DELEGATE block is unknown).
UnknownName(b) == b.name \notin ParserKinds

MalformedFields(b) ==
    /\ b.name \in ParserKinds \ {"LIST_FILES"}
    /\ \/ LacksRequired(b)
       \/ b.name = "DELEGATE" /\ b.agent \notin AgentTypeMap

WellFormed(b) == ~UnknownName(b) /\ ~MalformedFields(b)

\* C26: every text is parsed into a list; a block with an unknown name or
\* malformed fields gives no action and every well-formed block gives exactly
\* one, whatever stands before and after it; so there are at most as many
\* actions as headers, and the actions are in the order of their headers.
C26_ParsingTotal ==
    parsed # NotParsed =>
        /\ parsed \in Seq({parsed[k] : k \in DOMAIN parsed})
        /\ Len(parsed) <= Len(message)
        /\ \A k \in DOMAIN parsed : parsed[k].header \in DOMAIN message
        /\ \A j, k \in DOMAIN parsed : j < k => parsed[j].header < parsed[k].header
        /\ \A i \in DOMAIN message :
               Cardinality(ActionsOfHeader(i)) =
                   IF WellFormed(message[i]) THEN 1 ELSE 0

C26_Witness ==
    /\ Len(message) = 2
    /\ UnknownName(message[1])
    /\ WellFormed(message[2])
    /\ Len(parsed) = 1
    /\ parsed[1].header = 2

(***************************************************************************)
(* Properties of two interleaved runs.                                     *)
(***************************************************************************)
\* The run is between its start and its end.
Alive(r) == runs[r].pc \notin {"start", "done"}

\* C27: a transition made by one run never changes the state against which
\* the other run's actions are validated: every action a run submits (it
\* does so between its transition to Executing and its transition to
\* Learning) is validated against Executing.
C27_ValidatedAgainstOwnPhase ==
    \A r \in DOMAIN runs :
        \A k \in DOMAIN runs[r].checked : runs[r].checked[k].state = "executing"

\* C28: the start of one run never removes or replaces turns of the other
\* run's history while that run is alive, and the history sent to the
\* provider on behalf of a run holds turns of that run only.
C28_SentOwnTurnsOnly ==
    \A r \in DOMAIN runs :
        \A k \in DOMAIN runs[r].sent :
            \A i \in DOMAIN runs[r].sent[k].messages :
                runs[r].sent[k].messages[i].owner = r

C28_SeedKeepsOtherTurns ==
    \A r, s \in DOMAIN runs :
        (r # s /\ runs[r].pc = "seed" /\ runs'[r].pc = "loop" /\ Alive(s)) =>
            \A i \in DOMAIN conversation_history :
                conversation_history[i].owner = s =>
                    /\ i \in DOMAIN conversation_history'
                    /\ conversation_history'[i] = conversation_history[i]

C28_HistoryOfOneTask == [](C28_SentOwnTurnsOnly) /\ [][C28_SeedKeepsOtherTurns]_vars

(***************************************************************************)
(* Properties of the task registry.                                        *)
(***************************************************************************)
\* get_task_status.
GetTaskStatus(task_id) ==
    IF task_id \in DOMAIN tasks THEN tasks[task_id] ELSE [task_id |-> NoId]

\* The same DelegatedTask object, whatever its status and result have become.
SameRecord(a, b) ==
    /\ a.task_id = b.task_id
    /\ a.agent_type = b.agent_type
    /\ a.description = b.description
    /\ a.parent_task_id = b.parent_task_id

\* The step is the entry of the i-th delegate_task call.
DelegationStarts(i) ==
    /\ i \in DOMAIN slots /\ i \in DOMAIN slots'
    /\ slots[i].state = "created"
    /\ slots'[i].state # "created"

\* C29: every delegate_task call adds exactly one record, under an id no
\* record has; no step removes a record or puts another one under its id, so
\* the number of records never decreases and get_task_status of an id keeps
\* returning the same record.
C29_RegistryAppendOnly ==
    [][ /\ DOMAIN tasks \subseteq DOMAIN tasks'
        /\ Cardinality(DOMAIN tasks') >= Cardinality(DOMAIN tasks)
        /\ \A id \in DOMAIN tasks :
               /\ tasks[id].task_id = id
               /\ SameRecord(GetTaskStatus(id)', GetTaskStatus(id))
        /\ \A i \in 1..MaxTasks :
               DelegationStarts(i) =>
                   /\ slots'[i].task_id \notin DOMAIN tasks
                   /\ DOMAIN tasks' = DOMAIN tasks \cup {slots'[i].task_id}
        /\ (\A i \in 1..MaxTasks : ~DelegationStarts(i)) =>
               DOMAIN tasks' = DOMAIN tasks ]_vars

\* Three delegations of one gather are in flight together, each under its
\* own id.
C29_Witness ==
    /\ opc = "gather"
    /\ Len(slots) = 3
    /\ \A i \in DOMAIN slots : slots[i].state = "awaiting"
    /\ Cardinality(DOMAIN tasks) = 3
    /\ Cardinality({slots[i].task_id : i \in DOMAIN slots}) = 3

(***************************************************************************)
(* Properties of the delegations while the registry changes.               *)
(***************************************************************************)
CallsFor(id) == {k \in DOMAIN executor_calls : executor_calls[k].task_id = id}

WasRefused(task) ==
    task.status = "failed" /\ task.error.text \in {"not registered", "is not active"}

\* The entry of the i-th delegate_task call decides on the registry of that
\* moment: an unavailable worker gives a Failed task and no executor call,
\* an available one gives one call of the executor registered then.
DecidedAtEntry(i) ==
    LET agent_type == call.tasks[i].agent_type
        id == slots'[i].task_id IN
    IF Unavailable(agent_type)
    THEN /\ slots'[i].state = "returned"
         /\ WasRefused(tasks'[id])
         /\ tasks'[id].error.agent = agent_type
         /\ executor_calls' = executor_calls
    ELSE /\ slots'[i].state = "awaiting"
         /\ tasks'[id].status = "in_progress"
         /\ executor_calls' =
                Append(executor_calls,
                       [agent_type |-> agent_type, task_id |-> id,
                        executor |-> agents[agent_type].executor])

\* No later step changes the decision: the calls made stay as they are, no
\* call is added outside the entry of a delegation, a refused task stays as
\* it is, and a started task is never refused.
DecisionKept ==
    /\ (\A i \in 1..MaxTasks : ~DelegationStarts(i)) =>
           executor_calls' = executor_calls
    /\ \A k \in DOMAIN executor_calls :
           k \in DOMAIN executor_calls' /\ executor_calls'[k] = executor_calls[k]
    /\ \A id \in DOMAIN tasks :
           /\ WasRefused(tasks[id]) => tasks'[id] = tasks[id]
           /\ ~WasRefused(tasks[id]) => ~WasRefused(tasks'[id])

\* C30: the check and the executor's invocation are one step of the call,
\* so registry changes made while the call is in flight do not change them:
\* a delegation that found its worker registered and active has exactly one
\* call, of the executor found, and a delegation that found it missing is
\* Failed with no call, whatever is registered or unregistered afterwards.
C30_DecisionBeforeFirstAwait ==
    /\ [](\A id \in DOMAIN tasks :
            Cardinality(CallsFor(id)) = IF WasRefused(tasks[id]) THEN 0 ELSE 1)
    /\ [][ /\ \A i \in 1..MaxTasks : DelegationStarts(i) => DecidedAtEntry(i)
           /\ DecisionKept ]_vars

\* A browser task was refused and a knowledge task started with executor 1;
\* while the latter waited, browser was registered and knowledge was
\* registered again with another executor; the knowledge task completed.
C30_Witness ==
    /\ registry_changes = 2
    /\ "browser" \in DOMAIN agents
    /\ "knowledge" \in DOMAIN agents
    /\ agents["knowledge"].executor = NewExecutor
    /\ Len(executor_calls) = 1
    /\ executor_calls[1].executor = 1
    /\ executor_calls[1].agent_type = "knowledge"
    /\ Cardinality(DOMAIN tasks) = 2
    /\ \E a, b \in DOMAIN tasks :
        /\ tasks[a].agent_type = "browser"
        /\ WasRefused(tasks[a])
        /\ tasks[b].agent_type = "knowledge"
        /\ tasks[b].status = "completed"

(***************************************************************************)
(* Properties of execute_sequential's order.                               *)
(***************************************************************************)
InProgress == {id \in DOMAIN tasks : tasks[id].status = "in_progress"}

Finished(id) == tasks[id].status \in {"completed", "failed"}

\* C31: in execute_sequential the executors are invoked in the order of the
\* task list, a delegation starts only when all the delegations before it
\* have returned with their tasks Completed or Failed, and no two tasks are
\* InProgress at once.
C31_SequentialOneAtATime ==
    call.mode = "sequential" =>
        /\ Cardinality(InProgress) <= 1
        /\ \A i \in DOMAIN slots :
               slots[i].state # "created" =>
                   \A j \in 1..(i - 1) :
                       /\ slots[j].state = "returned"
                       /\ Finished(slots[j].task_id)
        /\ \A k, l \in DOMAIN executor_calls :
               k < l => tasks[executor_calls[k].task_id].description
                            < tasks[executor_calls[l].task_id].description

\* The third executor runs after the first two have finished.
C31_Witness ==
    /\ opc = "sequential"
    /\ Len(slots) = 3
    /\ slots[3].state = "awaiting"
    /\ Len(executor_calls) = 3
    /\ InProgress = {slots[3].task_id}
    /\ Finished(slots[1].task_id)
    /\ Finished(slots[2].task_id)

(***************************************************************************)
(* Properties of the worker loop's iterations.                             *)
(***************************************************************************)
\* The generator resumes after the yield of the reply, and the reply has no
\* marker and no action.
ResumesWithEmptyReply ==
    /\ pc = "check"
    /\ ~abandoned'
    /\ ~ContainsMarker(LastReply)
    /\ ParseActions(LastReply) = <<>>

\* C32: for a reply without marker and without actions the loop appends one
\* nudge turn after the assistant turn, calls no effector, and goes on to
\* the loop's test with the iteration count as it is: the next completion
\* is requested iff the count is below max_iterations.
C32_NudgeAndContinue ==
    [][ /\ ResumesWithEmptyReply =>
              /\ conversation_history[Len(conversation_history)].role = "assistant"
              /\ conversation_history' = Append(conversation_history, NudgeTurn)
              /\ effector_calls' = effector_calls
              /\ error_memory' = error_memory
              /\ events' = events
              /\ iteration' = iteration
              /\ pc' = "loop"
        /\ (pc = "loop" /\ conversation_history # <<>>
              /\ conversation_history[Len(conversation_history)] = NudgeTurn) =>
              /\ (iteration < max_iterations) =>
                     (pc' = "completion" /\ iteration' = iteration + 1)
              /\ (iteration >= max_iterations) => pc' = "learning" ]_vars

\* The second completion is requested after a nudge.
C32_Witness ==
    /\ pc = "completion"
    /\ iteration = 2
    /\ Len(conversation_history) >= 2
    /\ conversation_history[Len(conversation_history)] = NudgeTurn
    /\ conversation_history[Len(conversation_history) - 1].role = "assistant"
    /\ effector_calls = <<>>

\* The assistant turns of the history, and the place of the last one.
AssistantTurns == {i \in DOMAIN conversation_history :
                      conversation_history[i].role = "assistant"}

LastAssistant == CHOOSE i \in AssistantTurns : \A j \in AssistantTurns : j <= i

\* The actions of the iteration's reply and the turns appended after it.
IterationActions == ParseActions(conversation_history[LastAssistant].reply)

TurnsAfterReply ==
    SubSeq(conversation_history, LastAssistant + 1, Len(conversation_history))

\* The first n actions of the reply have one user turn each, in parse order.
Answered(n) ==
    /\ Len(TurnsAfterReply) = n
    /\ \A k \in 1..n :
           /\ TurnsAfterReply[k].role = "user"
           /\ TurnsAfterReply[k].tag \in {"rejected", "succeeded", "failed"}
           /\ TurnsAfterReply[k].info = IterationActions[k]

\* C33: the reply of an iteration is in the history before any of its
\* actions is validated; the actions are handled in parse order, each with
\* exactly one user turn (rejection or feedback) appended before the next is
\* validated; the next completion is requested only when every action of
\* the reply has its user turn (or the reply had none and was nudged).
C33_StrictlySequential ==
    /\ (pc \in {"check", "action", "executing"}) =>
           /\ Cardinality(AssistantTurns) = iteration
           /\ iteration >= 1
    /\ (pc \in {"action", "executing"}) =>
           /\ pending # <<>>
           /\ Len(pending) <= Len(IterationActions)
           /\ pending = SubSeq(IterationActions,
                               Len(IterationActions) - Len(pending) + 1,
                               Len(IterationActions))
           /\ Answered(Len(IterationActions) - Len(pending))
    /\ (pc = "executing") => validated.action = Head(pending) /\ validated.ok
    /\ (pc = "completion" /\ iteration > 1) =>
           /\ Cardinality(AssistantTurns) = iteration - 1
           /\ IF IterationActions = <<>>
              THEN TurnsAfterReply = <<NudgeTurn>>
              ELSE Answered(Len(IterationActions))

\* The second completion is requested after both actions of the first reply
\* were handled, one rejected and one executed.
C33_Witness ==
    /\ pc = "completion"
    /\ iteration = 2
    /\ Len(IterationActions) = 2
    /\ Answered(2)
    /\ TurnsAfterReply[1].tag = "rejected"
    /\ TurnsAfterReply[2].tag \in {"succeeded", "failed"}

\* The step is the return of _execute_action with an unsuccessful result:
\* the failure feedback of the action is appended.
EffectorFailed ==
    /\ pc = "executing"
    /\ pending # <<>>
    /\ conversation_history' =
           Append(conversation_history, FeedbackTurn(Head(pending), FALSE))

\* C34: an unsuccessful effector call does not stop the task: the failure
\* feedback is appended, then the remaining actions of the reply are handled
\* and, after the last one, the loop goes on to its next iteration; no
\* task_failed event is emitted.
C34_EffectorFailureContinues ==
    [][ EffectorFailed =>
            /\ pending' = Tail(pending)
            /\ pc' = (IF Tail(pending) = <<>> THEN "loop" ELSE "action")
            /\ \A k \in DOMAIN events' : events'[k].type # "task_failed" ]_vars

\* C35: the error memory gains exactly one entry, with the action and the
\* iteration, in the step in which an executed action's result is
\* unsuccessful; every other step (a successful action, a rejected action,
\* a reply without actions, the seeding, the end of the run) leaves it as
\* it is, so no entry is ever removed.
C35_ErrorMemoryPerFailure ==
    [][ IF EffectorFailed
        THEN error_memory' =
                 Append(error_memory,
                        [action |-> Head(pending), iteration |-> iteration])
        ELSE error_memory' = error_memory ]_vars

\* An action succeeded in the first iteration and one failed in the second:
\* the memory has the one entry of the failure.
C35_Witness ==
    /\ error_memory = <<[action |-> "EXECUTE", iteration |-> 2]>>
    /\ \E i \in DOMAIN conversation_history : conversation_history[i].tag = "succeeded"
    /\ \E i \in DOMAIN conversation_history : conversation_history[i].tag = "failed"
    /\ Len(effector_calls) = 2

IterationEvents == SelectSeq(events, LAMBDA e : e.type = "iteration")

\* The replies the run has received and passed on.
ReplyEvents == SelectSeq(events, LAMBDA e : e.type = "agent_message")

\* C36: a run requests at most max_iterations completions (a completion is
\* requested only after the iteration event of its number), its iteration
\* events are numbered 1, 2, ... up to the iteration count, which never
\* exceeds max_iterations, and, every collaborator call returning or
\* raising, the run ends and the state machine is Idle from then on.
C36_BoundedAndTerminates ==
    /\ [](/\ iteration <= max_iterations
          /\ Len(IterationEvents) = iteration
          /\ \A k \in DOMAIN IterationEvents : IterationEvents[k].iteration = k
          /\ Len(ReplyEvents) <= iteration
          /\ (pc = "completion") => Len(ReplyEvents) = iteration - 1)
    /\ <>[](pc = "done" /\ current_state = "idle")

\* A run that used both its iterations has ended, Idle.
C36_Witness ==
    /\ pc = "done"
    /\ ~abandoned
    /\ current_state = "idle"
    /\ max_iterations = 2
    /\ iteration = 2
    /\ Len(IterationEvents) = 2
    /\ Len(ReplyEvents) = 2

(***************************************************************************)
(* Properties of the parent id and of the returned tasks.                  *)
(***************************************************************************)
\* What execute_parallel hands back to execute_hierarchical.
HierarchicalGathered == opc = "gather" /\ call.mode = "hierarchical" /\ Gathered

\* C37: execute_hierarchical allocates one parent id, from a counter value
\* no id had before (so it differs from every task id and from the parent
\* id of any other call), and every DelegatedTask it gets back for its
\* subtasks, and lists in subtask_details, has that id as parent_task_id;
\* the tasks of the other calls have none.
C37_OneFreshParentId ==
    /\ [](/\ \A id \in DOMAIN tasks :
                /\ id.n <= task_counter
                /\ id # parent_task_id
                /\ id.n # parent_task_id.n
                /\ tasks[id].parent_task_id = parent_task_id
          /\ parent_task_id.n <= task_counter
          /\ (call.mode = "hierarchical" /\ opc \in {"gather", "done"})
                 <=> parent_task_id # NoId
          /\ HierarchicalGathered =>
                 \A i \in DOMAIN ProcessedResults :
                     /\ ProcessedResults[i].parent_task_id = parent_task_id
                     /\ ProcessedResults[i].task_id # parent_task_id
          /\ OrchDone("hierarchical") =>
                 /\ ret.parent_task_id = parent_task_id
                 /\ Len(ret.subtask_details) = Len(call.tasks))
    /\ [][ parent_task_id' # parent_task_id =>
               /\ parent_task_id = NoId
               /\ task_counter' = task_counter + 1
               /\ parent_task_id'.n = task_counter' ]_vars

(***************************************************************************)
(* Properties of the terminal events of a run.                             *)
(***************************************************************************)
TerminalEvents == {i \in DOMAIN events : events[i].type \in TerminalTypes}

\* C38: the terminal outcomes of a run are mutually exclusive: its stream
\* holds at most one event among task_completed, task_timeout and
\* task_failed, so a run that completed has not also timed out or failed.
C38_OneTerminalEvent ==
    /\ Cardinality(TerminalEvents) <= 1
    /\ HasEventType("task_completed") =>
           ~HasEventType("task_timeout") /\ ~HasEventType("task_failed")

(***************************************************************************)
(* Properties of the lifecycle of a DelegatedTask.                         *)
(***************************************************************************)
\* The delegate_task call that owns the task has returned.
OwnerReturned(id) ==
    \E i \in DOMAIN slots : slots[i].state = "returned" /\ slots[i].task_id = id

\* The executor is running for the task.
OwnerAwaiting(id) ==
    \E i \in DOMAIN slots : slots[i].state = "awaiting" /\ slots[i].task_id = id

\* The record is as the step of its status allows.
LifecycleRecord(id) ==
    LET t == tasks[id] IN
    /\ t.status \in {"in_progress", "completed", "failed"}
    /\ Cardinality(CallsFor(id)) <= 1
    /\ t.status = "in_progress" =>
           /\ OwnerAwaiting(id)
           /\ Cardinality(CallsFor(id)) = 1
           /\ t.started_at /\ ~t.completed_at
           /\ t.result = NoneValue /\ t.error = NoError
    /\ t.status = "completed" =>
           /\ Cardinality(CallsFor(id)) = 1
           /\ t.result \in ExecutorResults
           /\ t.error = NoError
           /\ t.started_at /\ t.completed_at
    /\ t.status = "failed" =>
           /\ t.error # NoError
           /\ t.result = NoneValue
           /\ WasRefused(t) <=> CallsFor(id) = {}
           /\ WasRefused(t) <=> ~t.started_at
    /\ OwnerReturned(id) <=> Finished(id)
    /\ OwnerAwaiting(id) <=> t.status = "in_progress"

\* The step moves every record along Pending -> InProgress -> (Completed |
\* Failed) or Pending -> Failed, and invokes an executor only for the task
\* it makes InProgress.
LifecycleStep ==
    /\ \A id \in DOMAIN tasks :
           /\ id \in DOMAIN tasks'
           /\ Finished(id) => tasks'[id] = tasks[id]
           /\ tasks[id].status = "in_progress" =>
                  /\ tasks'[id].status \in {"in_progress", "completed", "failed"}
                  /\ CallsFor(id)' = CallsFor(id)
    /\ \A id \in DOMAIN tasks' \ DOMAIN tasks :
           /\ tasks'[id].status \in {"in_progress", "failed"}
           /\ tasks'[id].status = "in_progress" <=>
                  executor_calls' # executor_calls
    /\ executor_calls' # executor_calls =>
           /\ Len(executor_calls') = Len(executor_calls) + 1
           /\ IsPrefix(executor_calls, executor_calls')
           /\ LET new == executor_calls'[Len(executor_calls')].task_id IN
              /\ new \notin DOMAIN tasks
              /\ new \in DOMAIN tasks'
              /\ tasks'[new].status = "in_progress"

RegisteredAs(task_id, status, result) ==
    /\ GetTaskStatus(task_id).task_id = task_id
    /\ GetTaskStatus(task_id).status = status
    /\ GetTaskStatus(task_id).result = result

\* get_task_status of the task's id finds a record with its status, result
\* and error.
Registered(task) ==
    /\ RegisteredAs(task.task_id, task.status, task.result)
    /\ GetTaskStatus(task.task_id).error = task.error

\* C40: every DelegatedTask returned by execute_sequential, execute_parallel,
\* execute_hierarchical (its subtask details) or execute_consensus is the
\* record the registry holds under its id: get_task_status of the returned
\* id gives the same status, result and error, for Failed tasks too.
C40_ReturnedIsRegistered ==
    /\ (opc = "done" /\ ret.kind = "tasks") =>
           \A i \in DOMAIN ret.tasks : Registered(ret.tasks[i])
    /\ OrchDone("hierarchical") =>
           \A k \in DOMAIN ret.subtask_details :
               RegisteredAs(ret.subtask_details[k].task_id,
                            ret.subtask_details[k].status,
                            ret.subtask_details[k].result)
    /\ (opc = "gather" /\ call.mode = "consensus" /\ Gathered) =>
           \A i \in DOMAIN ProcessedResults : Registered(ProcessedResults[i])

====
